---- MODULE Spec2Model ----
(***************************************************************************)
(* rompipe: the fallback control-flow recoverer of disassemble.py          *)
(* (disassemble_with_capstone) and the two-pass translator of              *)
(* translate_cpu.py, as state machines.                                    *)
(***************************************************************************)
EXTENDS Integers, Sequences, FiniteSets, TLC

----------------------------------------------------------------------------
(* Bounds of the model                                                     *)

\* longest program image, in pieces of ImagePieces
MaxPieces == 3

\* most lines the bank files of one translation run hold together
MaxLines == 3

\* the same bound for the runs that call the oracle
MaxOracleLines == 2

----------------------------------------------------------------------------
(* disassemble.py: tables                                                  *)

NES_PPU_REGS ==
    (8192 :> "PPUCTRL") @@ (8193 :> "PPUMASK") @@ (8194 :> "PPUSTATUS") @@ (8195 :> "OAMADDR")
    @@ (8196 :> "OAMDATA") @@ (8197 :> "PPUSCROLL") @@ (8198 :> "PPUADDR") @@ (8199 :> "PPUDATA")
    @@ (16404 :> "OAMDMA")

NES_APU_REGS ==
    (16384 :> "SQ1_VOL") @@ (16385 :> "SQ1_SWEEP") @@ (16386 :> "SQ1_LO") @@ (16387 :> "SQ1_HI")
    @@ (16388 :> "SQ2_VOL") @@ (16389 :> "SQ2_SWEEP") @@ (16390 :> "SQ2_LO") @@ (16391 :> "SQ2_HI")
    @@ (16392 :> "TRI_LINEAR") @@ (16394 :> "TRI_LO") @@ (16395 :> "TRI_HI") @@ (16396 :> "NOISE_VOL")
    @@ (16398 :> "NOISE_LO") @@ (16399 :> "NOISE_HI") @@ (16400 :> "DMC_FREQ") @@ (16401 :> "DMC_RAW")
    @@ (16402 :> "DMC_START") @@ (16403 :> "DMC_LEN") @@ (16405 :> "APU_STATUS") @@ (16407 :> "FRAME_CNT")

ALL_HW_REGS == NES_PPU_REGS @@ NES_APU_REGS

BRANCHES == {"BPL", "BMI", "BVC", "BVS", "BCC", "BCS", "BNE", "BEQ"}

\* (a plausible slip: RTS left out of the terminators)
TerminatorsWithoutRTS == {"RTI", "BRK"}

TERMINATORS == {"RTS", "RTI", "BRK"}

\* load address of the image
base == 32768

\* order of the keys of manifest["interrupt_vectors"] (parse_rom.py)
VecOrder == <<"NMI", "RESET", "IRQ">>

VecNames == {VecOrder[i] : i \in 1..Len(VecOrder)}

_VEC_LABEL == ("NMI" :> "NMI_HANDLER") @@ ("RESET" :> "RESET_HANDLER") @@ ("IRQ" :> "IRQ_HANDLER")

OPCODES ==
    (0 :> <<"BRK", "imp", 1>>) @@ (1 :> <<"ORA", "izx", 2>>) @@ (5 :> <<"ORA", "zp", 2>>)
    @@ (6 :> <<"ASL", "zp", 2>>) @@ (8 :> <<"PHP", "imp", 1>>) @@ (9 :> <<"ORA", "imm", 2>>)
    @@ (10 :> <<"ASL", "acc", 1>>) @@ (13 :> <<"ORA", "abs", 3>>) @@ (14 :> <<"ASL", "abs", 3>>)
    @@ (16 :> <<"BPL", "rel", 2>>) @@ (17 :> <<"ORA", "izy", 2>>) @@ (21 :> <<"ORA", "zpx", 2>>)
    @@ (22 :> <<"ASL", "zpx", 2>>) @@ (24 :> <<"CLC", "imp", 1>>) @@ (25 :> <<"ORA", "aby", 3>>)
    @@ (29 :> <<"ORA", "abx", 3>>) @@ (30 :> <<"ASL", "abx", 3>>) @@ (32 :> <<"JSR", "abs", 3>>)
    @@ (33 :> <<"AND", "izx", 2>>) @@ (36 :> <<"BIT", "zp", 2>>) @@ (37 :> <<"AND", "zp", 2>>)
    @@ (38 :> <<"ROL", "zp", 2>>) @@ (40 :> <<"PLP", "imp", 1>>) @@ (41 :> <<"AND", "imm", 2>>)
    @@ (42 :> <<"ROL", "acc", 1>>) @@ (44 :> <<"BIT", "abs", 3>>) @@ (45 :> <<"AND", "abs", 3>>)
    @@ (46 :> <<"ROL", "abs", 3>>) @@ (48 :> <<"BMI", "rel", 2>>) @@ (49 :> <<"AND", "izy", 2>>)
    @@ (53 :> <<"AND", "zpx", 2>>) @@ (54 :> <<"ROL", "zpx", 2>>) @@ (56 :> <<"SEC", "imp", 1>>)
    @@ (57 :> <<"AND", "aby", 3>>) @@ (61 :> <<"AND", "abx", 3>>) @@ (62 :> <<"ROL", "abx", 3>>)
    @@ (64 :> <<"RTI", "imp", 1>>) @@ (65 :> <<"EOR", "izx", 2>>) @@ (69 :> <<"EOR", "zp", 2>>)
    @@ (70 :> <<"LSR", "zp", 2>>) @@ (72 :> <<"PHA", "imp", 1>>) @@ (73 :> <<"EOR", "imm", 2>>)
    @@ (74 :> <<"LSR", "acc", 1>>) @@ (76 :> <<"JMP", "abs", 3>>) @@ (77 :> <<"EOR", "abs", 3>>)
    @@ (78 :> <<"LSR", "abs", 3>>) @@ (80 :> <<"BVC", "rel", 2>>) @@ (81 :> <<"EOR", "izy", 2>>)
    @@ (85 :> <<"EOR", "zpx", 2>>) @@ (86 :> <<"LSR", "zpx", 2>>) @@ (88 :> <<"CLI", "imp", 1>>)
    @@ (89 :> <<"EOR", "aby", 3>>) @@ (93 :> <<"EOR", "abx", 3>>) @@ (94 :> <<"LSR", "abx", 3>>)
    @@ (96 :> <<"RTS", "imp", 1>>) @@ (97 :> <<"ADC", "izx", 2>>) @@ (101 :> <<"ADC", "zp", 2>>)
    @@ (102 :> <<"ROR", "zp", 2>>) @@ (104 :> <<"PLA", "imp", 1>>) @@ (105 :> <<"ADC", "imm", 2>>)
    @@ (106 :> <<"ROR", "acc", 1>>) @@ (108 :> <<"JMP", "ind", 3>>) @@ (109 :> <<"ADC", "abs", 3>>)
    @@ (110 :> <<"ROR", "abs", 3>>) @@ (112 :> <<"BVS", "rel", 2>>) @@ (113 :> <<"ADC", "izy", 2>>)
    @@ (117 :> <<"ADC", "zpx", 2>>) @@ (118 :> <<"ROR", "zpx", 2>>) @@ (120 :> <<"SEI", "imp", 1>>)
    @@ (121 :> <<"ADC", "aby", 3>>) @@ (125 :> <<"ADC", "abx", 3>>) @@ (126 :> <<"ROR", "abx", 3>>)
    @@ (129 :> <<"STA", "izx", 2>>) @@ (132 :> <<"STY", "zp", 2>>) @@ (133 :> <<"STA", "zp", 2>>)
    @@ (134 :> <<"STX", "zp", 2>>) @@ (136 :> <<"DEY", "imp", 1>>) @@ (138 :> <<"TXA", "imp", 1>>)
    @@ (140 :> <<"STY", "abs", 3>>) @@ (141 :> <<"STA", "abs", 3>>) @@ (142 :> <<"STX", "abs", 3>>)
    @@ (144 :> <<"BCC", "rel", 2>>) @@ (145 :> <<"STA", "izy", 2>>) @@ (148 :> <<"STY", "zpx", 2>>)
    @@ (149 :> <<"STA", "zpx", 2>>) @@ (150 :> <<"STX", "zpy", 2>>) @@ (152 :> <<"TYA", "imp", 1>>)
    @@ (153 :> <<"STA", "aby", 3>>) @@ (154 :> <<"TXS", "imp", 1>>) @@ (157 :> <<"STA", "abx", 3>>)
    @@ (160 :> <<"LDY", "imm", 2>>) @@ (161 :> <<"LDA", "izx", 2>>) @@ (162 :> <<"LDX", "imm", 2>>)
    @@ (164 :> <<"LDY", "zp", 2>>) @@ (165 :> <<"LDA", "zp", 2>>) @@ (166 :> <<"LDX", "zp", 2>>)
    @@ (168 :> <<"TAY", "imp", 1>>) @@ (169 :> <<"LDA", "imm", 2>>) @@ (170 :> <<"TAX", "imp", 1>>)
    @@ (172 :> <<"LDY", "abs", 3>>) @@ (173 :> <<"LDA", "abs", 3>>) @@ (174 :> <<"LDX", "abs", 3>>)
    @@ (176 :> <<"BCS", "rel", 2>>) @@ (177 :> <<"LDA", "izy", 2>>) @@ (180 :> <<"LDY", "zpx", 2>>)
    @@ (181 :> <<"LDA", "zpx", 2>>) @@ (182 :> <<"LDX", "zpy", 2>>) @@ (184 :> <<"CLV", "imp", 1>>)
    @@ (185 :> <<"LDA", "aby", 3>>) @@ (186 :> <<"TSX", "imp", 1>>) @@ (188 :> <<"LDY", "abx", 3>>)
    @@ (189 :> <<"LDA", "abx", 3>>) @@ (190 :> <<"LDX", "aby", 3>>) @@ (192 :> <<"CPY", "imm", 2>>)
    @@ (193 :> <<"CMP", "izx", 2>>) @@ (196 :> <<"CPY", "zp", 2>>) @@ (197 :> <<"CMP", "zp", 2>>)
    @@ (198 :> <<"DEC", "zp", 2>>) @@ (200 :> <<"INY", "imp", 1>>) @@ (201 :> <<"CMP", "imm", 2>>)
    @@ (202 :> <<"DEX", "imp", 1>>) @@ (204 :> <<"CPY", "abs", 3>>) @@ (205 :> <<"CMP", "abs", 3>>)
    @@ (206 :> <<"DEC", "abs", 3>>) @@ (208 :> <<"BNE", "rel", 2>>) @@ (209 :> <<"CMP", "izy", 2>>)
    @@ (213 :> <<"CMP", "zpx", 2>>) @@ (214 :> <<"DEC", "zpx", 2>>) @@ (216 :> <<"CLD", "imp", 1>>)
    @@ (217 :> <<"CMP", "aby", 3>>) @@ (221 :> <<"CMP", "abx", 3>>) @@ (222 :> <<"DEC", "abx", 3>>)
    @@ (224 :> <<"CPX", "imm", 2>>) @@ (225 :> <<"SBC", "izx", 2>>) @@ (228 :> <<"CPX", "zp", 2>>)
    @@ (229 :> <<"SBC", "zp", 2>>) @@ (230 :> <<"INC", "zp", 2>>) @@ (232 :> <<"INX", "imp", 1>>)
    @@ (233 :> <<"SBC", "imm", 2>>) @@ (234 :> <<"NOP", "imp", 1>>) @@ (236 :> <<"CPX", "abs", 3>>)
    @@ (237 :> <<"SBC", "abs", 3>>) @@ (238 :> <<"INC", "abs", 3>>) @@ (240 :> <<"BEQ", "rel", 2>>)
    @@ (241 :> <<"SBC", "izy", 2>>) @@ (245 :> <<"SBC", "zpx", 2>>) @@ (246 :> <<"INC", "zpx", 2>>)
    @@ (248 :> <<"SED", "imp", 1>>) @@ (249 :> <<"SBC", "aby", 3>>) @@ (253 :> <<"SBC", "abx", 3>>)
    @@ (254 :> <<"INC", "abx", 3>>)

KnownOpcodes == DOMAIN OPCODES

----------------------------------------------------------------------------
(* disassemble.py: state of disassemble_with_capstone                      *)

VARIABLES
    prg_data,           \* the image bytes (prg_bin.read_bytes())
    vectors,            \* manifest["interrupt_vectors"], parsed: name -> address
    queue,              \* work queue (a list used as a stack)
    seen_addrs,         \* visited set
    all_instructions,   \* addr -> <<mnem, op_str, length>>
    register_accesses,  \* list of RegisterAccessSite records
    functions,          \* "0xXXXX" -> Function record
    addr,               \* the loop variable addr
    pc,                 \* position: "outer" (while queue), "inner" (while True), "done"
                        \* (the loop has ended), "written" (the outputs are written)
    key_order,          \* the keys of the two dicts in the order of their insertion
    run,                \* which run of the disassembler on this input this is
    first_run,          \* the tables the first run ended with
    disasm_files        \* the bank_NN.asm files written so far, in the order of NN

cfrVars == <<prg_data, vectors, queue, seen_addrs, all_instructions,
             register_accesses, functions, addr, pc, key_order, run, first_run, disasm_files>>

\* the state of a translation run (translate_cpu.py)
VARIABLES
    bank_files,          \* the bank_*.asm files read so far, each a list of lines
    out_files,           \* the *_65816.asm files written so far
    out_lines,           \* preprocess_bank: out_lines of the bank in work
    llm_lines,           \* preprocess_bank: llm_lines of the bank in work
    global_skip_counter, \* translate_banks: global_skip_counter[0]
    use_llm,             \* translate_banks: use_llm
    functions_data,      \* translate_banks: functions.json, in file order
    translation_log,     \* translate_banks: translation_log
    todo,                \* call_llm_translate: functions_batch still to do
    results,             \* call_llm_translate: results
    replies,             \* what the backend did at each call of the batch
    tpc                  \* position: "banks", "pass1", "oracle", "done";
                         \* "raised" after an exception left translate_banks

xlVars == <<bank_files, out_files, out_lines, llm_lines, global_skip_counter, use_llm,
            functions_data, translation_log, todo, results, replies, tpc>>

\* one expanded branch, run by the CPU
VARIABLES
    br_line,             \* the branch instruction as the bank file holds it
    br_flags,            \* the processor flags C, Z, N, V when it is reached
    br_block,            \* the lines Pass 1 emitted for it
    br_ip,               \* the line of br_block the CPU is at
    br_dest,             \* the operand of the JMP the CPU took
    br_pc                \* "raw", "run", "jumped" (control left by the JMP),
                         \* "fell" (control went on behind the block)

brVars == <<br_line, br_flags, br_block, br_ip, br_dest, br_pc>>

\* one run of the pipeline driver (main.py)
VARIABLES
    skip_audio,          \* args.skip_audio
    stage_results,       \* main: stage_results
    manifest,            \* main: manifest, a dict as the set of its (key, value) pairs
    stages_run,          \* the stages run_stage was called for, in the order of the calls
    build_reports,       \* the reports write_build_report wrote, in the order of writing
    exit_status,         \* the status the process ended with
    fidelity,            \* what the fidelity estimators returned
    m_pc                 \* "start", "loop" (between two stages), "stage" (a stage runs),
                         \* "exited"; "estimate", "estimated" when only the estimators run

mainVars == <<skip_audio, stage_results, manifest, stages_run, build_reports, exit_status,
              fidelity, m_pc>>

\* the dashboard's run of the pipeline (dashboard.py); run_pipeline has the locals
\* stage_results and manifest and the argument skip_audio as main has, and the stages
\* it runs and the reports it writes are kept in stages_run and build_reports
VARIABLES
    pipeline_status,     \* state.pipeline_status
    state_stages,        \* state.stages: stage_id -> status ("absent": no entry)
    broadcasts,          \* the calls of state.broadcast, in their order: (event, stage)
    archived,            \* how often _archive_run has copied the run
    d_pc                 \* "start", "loop", "stage", "report", "archive", "declare",
                         \* "returned"; "raised" after an exception ended the thread

dashVars == <<pipeline_status, state_stages, broadcasts, archived, d_pc>>

\* the server-sent-event clients of the dashboard and one thread that broadcasts
VARIABLES
    sse_queues,          \* state.sse_queues: the queues, each named by its client
    q_items,             \* the messages each queue holds
    q_history,           \* every message ever put into each queue
    q_joined,            \* how many broadcasts had begun when the queue was appended, and
                         \* whether one was under way
    client,              \* each client: "new", "streaming", "closed"
    b_sent,              \* the number of calls of broadcast so far; it names the message
    b_iter,              \* broadcast: how many elements its for loop has taken
    dead,                \* broadcast: dead
    b_pc                 \* broadcast: "idle", "iter" (first loop), "remove" (second
                         \* loop), "raised" (an exception left it)

sseVars == <<sse_queues, q_items, q_history, q_joined, client, b_sent, b_iter, dead, b_pc>>

\* _read_streaming on the output of one stage (dashboard.py)
VARIABLES
    stage_output,        \* everything the stage writes, as characters
    pipe,                \* what of it os.read has not handed over yet
    buffer,              \* _read_streaming: buffer
    llm_tokens,          \* state.llm_tokens
    log_lines,           \* state.log_lines
    s_pc                 \* "read" (in the loop), "done" (returned), "raised"

strVars == <<stage_output, pipe, buffer, llm_tokens, log_lines, s_pc>>

\* disassemble_with_ghidra (disassemble.py)
VARIABLES
    gh_num_banks,        \* num_banks
    gh_bank_idx,         \* bank_idx
    analysis,            \* what the analysis of each bank did: its return code and
                         \* whether NESAnalyzer.py wrote its output files
    funcs_file,          \* disasm/functions.json: whether it exists, and its content
    regs_file,           \* disasm/register_accesses.json, likewise
    all_functions,       \* all_functions, a dict as the set of its (key, value) pairs
    all_reg_accesses,    \* all_reg_accesses
    gh_pc                \* "analyse", "merge", "write", "done"

ghVars == <<gh_num_banks, gh_bank_idx, analysis, funcs_file, regs_file, all_functions,
            all_reg_accesses, gh_pc>>

\* the parts outside the disassembler and the translator
restVars == <<mainVars, dashVars, sseVars, strVars, ghVars>>

\* each part leaves the state of the others alone
CfrFrame == UNCHANGED <<xlVars, brVars, restVars>>

XlFrame == UNCHANGED <<cfrVars, brVars, restVars>>

BrFrame == UNCHANGED <<cfrVars, xlVars, restVars>>

\* pieces an image of the model is put together from: the bytes BRK (0),
\* JSR (32), BNE (208), NOP (234), INC abs,X (254) and 128, which is no
\* opcode, each also an operand byte (a low or high address byte, a
\* displacement of either sign); JMP $8000, STA $2000 and JSR $8001
ImagePieces ==
    {<<0>>, <<32>>, <<128>>, <<208>>, <<234>>, <<254>>,
     <<76, 0, 128>>, <<141, 0, 32>>, <<32, 1, 128>>}

\* addresses each vector may hold: inside the image, shared or not with
\* another vector, and (IRQ) below the image
VectorChoices ==
    ("NMI" :> {base}) @@ ("RESET" :> {base, base + 1}) @@ ("IRQ" :> {base - 1, base + 1})

\* None, as returned by abs_addr
None == -1

prg_size == Len(prg_data)

entry_addrs == {vectors[k] : k \in DOMAIN vectors}

\* a dict key that is the str f"0x{a:04X}"; a key that is the int a
StrKey(a) == [type |-> "str", v |-> a]

IntKey(a) == [type |-> "int", v |-> a]

\* d[k] = v
DictSet(d, k, v) == [x \in DOMAIN d \cup {k} |-> IF x = k THEN v ELSE d[x]]

\* the text f"{prefix}{value:0{width}X}{suffix}"
HexText(prefix, width, value, suffix) == <<prefix, width, value, suffix>>

fmt_operand(mode, lo, hi, at) ==
    CASE mode \in {"imp", "acc"} -> <<"", 0, 0, "">>
      [] mode = "imm" -> HexText("#$", 2, lo, "")
      [] mode = "zp"  -> HexText("$", 2, lo, "")
      [] mode = "zpx" -> HexText("$", 2, lo, ",X")
      [] mode = "zpy" -> HexText("$", 2, lo, ",Y")
      [] mode = "abs" -> HexText("$", 4, hi * 256 + lo, "")
      [] mode = "abx" -> HexText("$", 4, hi * 256 + lo, ",X")
      [] mode = "aby" -> HexText("$", 4, hi * 256 + lo, ",Y")
      [] mode = "ind" -> HexText("($", 4, hi * 256 + lo, ")")
      [] mode = "izx" -> HexText("($", 2, lo, ",X)")
      [] mode = "izy" -> HexText("($", 2, lo, "),Y")
      [] mode = "rel" -> HexText("$", 4, at + 2 + (IF lo < 128 THEN lo ELSE lo - 598), "")
      [] OTHER -> <<"", 0, 0, "">>

abs_addr(mode, lo, hi) ==
    IF mode \in {"abs", "abx", "aby"} THEN hi * 256 + lo ELSE None

\* (a plausible slip: no target is ever followed)
NeverTruthy(x) == FALSE

\* truth value of an Optional[int] in a condition
Truthy(x) == x # None /\ x # 0

\* name given to an entry address (lines 305-307): the last vector of the
\* manifest that holds the address, mapped through _VEC_LABEL
VectorName(a) ==
    LET idx == {i \in 1..Len(VecOrder) : VecOrder[i] \in DOMAIN vectors /\ vectors[VecOrder[i]] = a}
        last == CHOOSE i \in idx : \A j \in idx : j <= i
    IN  IF idx = {} THEN <<"sub_", a>> ELSE <<_VEC_LABEL[VecOrder[last]], None>>

SubName(a) == <<"sub_", a>>

FunctionRecord(name, a, callers) ==
    [name |-> name, start |-> StrKey(a), callers |-> callers, callees |-> <<>>]

\* (a plausible slip: the upper bound of the range test left out)
OutOfRangeNoUpper(a) == a < base

OutOfRange(a) == a < base \/ a >= base + prg_size

\* (a plausible slip: the visited test left out)
SkipUnvisited(a) == OutOfRange(a)

\* (a plausible slip: an address that has a Function record taken as visited)
SkipKnownFunctions(a) ==
    a \in seen_addrs \/ OutOfRange(a) \/ (pc = "inner" /\ StrKey(a) \in DOMAIN functions)

\* the test of lines 301 and 311: visited, or outside the image
Skip(a) == a \in seen_addrs \/ OutOfRange(a)

\* branch_offset (line 354)
branch_offset(lo) == IF lo < 128 THEN lo ELSE lo - 256

\* (a plausible slip: a missing operand byte read as $FF, as from an open bus)
OperandByteOpenBus(offset, n, length) ==
    IF length > n
    THEN IF offset + n < Len(prg_data) THEN prg_data[offset + n + 1] ELSE 255
    ELSE 0

\* prg_data[offset + n] if it lies in the image, else 0 (lines 321-322)
OperandByte(offset, n, length) ==
    IF length > n /\ offset + n < Len(prg_data) THEN prg_data[offset + n + 1] ELSE 0

\* all orders in which a list may hold the set
ListsOf(S) == {q \in [1..Cardinality(S) -> S] : \A x \in S : \E i \in DOMAIN q : q[i] = x}

\* the slot of an int in the table of a set of up to four elements: its
\* hash, which is the int itself, masked to the eight slots
SetSlot(a) == a % 8

\* (a plausible slip: a set of the vector strings, whose hashes differ from
\* one interpreter run to the next)
list_of_str_set(S) ==
    CHOOSE q \in ListsOf(S) :
        \A i, j \in DOMAIN q :
            i < j => IF pc # "done" THEN SetSlot(q[i]) < SetSlot(q[j])
                                    ELSE SetSlot(q[i]) > SetSlot(q[j])

\* list(entry_addrs): the elements in the order of their slots (no two
\* addresses of the model share a slot)
list_of_set(S) ==
    CHOOSE q \in ListsOf(S) : \A i, j \in DOMAIN q : i < j => SetSlot(q[i]) < SetSlot(q[j])

\* a dict keeps its keys in the order of their first insertion
KeyInserted(order, dict, d, k) ==
    IF k \in DOMAIN d THEN order ELSE Append(order, <<dict, k>>)

RECURSIVE Concat(_)
\* the pieces of ps, one after the other
Concat(ps) == IF ps = <<>> THEN <<>> ELSE Head(ps) \o Concat(Tail(ps))

Images == {Concat(ps) : ps \in UNION {[1..n -> ImagePieces] : n \in 1..MaxPieces}}

InitCFR ==
    /\ prg_data \in Images
    /\ vectors \in {v \in [VecNames -> UNION {VectorChoices[k] : k \in VecNames}] :
                       \A k \in VecNames : v[k] \in VectorChoices[k]}
    /\ pc = "outer"
    /\ run = 1
    /\ first_run = <<>>
    /\ disasm_files = <<>>
    /\ queue = list_of_set(entry_addrs)
    /\ seen_addrs = {}
    /\ all_instructions = <<>>
    /\ register_accesses = <<>>
    /\ functions = <<>>
    /\ key_order = <<>>
    /\ addr = None

\* while queue: addr = queue.pop(); visited or out of range: continue
Discard ==
    /\ pc = "outer"
    /\ queue # <<>>
    /\ LET a == queue[Len(queue)] IN
        /\ Skip(a)
        /\ addr' = a
    /\ queue' = SubSeq(queue, 1, Len(queue) - 1)
    /\ UNCHANGED <<prg_data, vectors, seen_addrs, all_instructions,
                   register_accesses, functions, pc, key_order, run, first_run, disasm_files>>
    /\ CfrFrame

\* while queue: addr = queue.pop(); mark the function of an entry address
\* and start a linear run
Dequeue ==
    /\ pc = "outer"
    /\ queue # <<>>
    /\ LET a == queue[Len(queue)] IN
        /\ ~Skip(a)
        /\ addr' = a
        /\ IF IntKey(a) \notin DOMAIN functions /\ a \in entry_addrs
           THEN /\ functions' =
                     DictSet(functions, StrKey(a), FunctionRecord(VectorName(a), a, <<>>))
                /\ key_order' = KeyInserted(key_order, "functions", functions, StrKey(a))
           ELSE UNCHANGED <<functions, key_order>>
    /\ queue' = SubSeq(queue, 1, Len(queue) - 1)
    /\ pc' = "inner"
    /\ UNCHANGED <<prg_data, vectors, seen_addrs, all_instructions, register_accesses,
                   run, first_run, disasm_files>>
    /\ CfrFrame

\* while True: a visited or out-of-range address: break
RunEnd ==
    /\ pc = "inner"
    /\ Skip(addr)
    /\ pc' = "outer"
    /\ UNCHANGED <<prg_data, vectors, queue, seen_addrs, all_instructions,
                   register_accesses, functions, addr, key_order, run, first_run, disasm_files>>
    /\ CfrFrame

\* (a plausible slip: an unknown opcode gives up the whole traversal)
DecodeFailAborts ==
    /\ pc = "inner"
    /\ ~Skip(addr)
    /\ seen_addrs' = seen_addrs \cup {addr}
    /\ LET offset == addr - base IN
        IF offset >= Len(prg_data) THEN TRUE ELSE prg_data[offset + 1] \notin KnownOpcodes
    /\ pc' = "outer"
    /\ queue' = <<>>
    /\ UNCHANGED <<prg_data, vectors, all_instructions,
                   register_accesses, functions, addr, key_order, run, first_run, disasm_files>>
    /\ CfrFrame

\* while True: mark visited; no byte or an unknown opcode: break
DecodeFail ==
    /\ pc = "inner"
    /\ ~Skip(addr)
    /\ seen_addrs' = seen_addrs \cup {addr}
    /\ LET offset == addr - base IN
        IF offset >= Len(prg_data) THEN TRUE ELSE prg_data[offset + 1] \notin KnownOpcodes
    /\ pc' = "outer"
    /\ UNCHANGED <<prg_data, vectors, queue, all_instructions,
                   register_accesses, functions, addr, key_order, run, first_run, disasm_files>>
    /\ CfrFrame

\* the RegisterAccessSite appended for an instruction (lines 329-337)
AccessSite(at, target, mnem) ==
    [address    |-> StrKey(at),
     hw_address |-> StrKey(target),
     hw_name    |-> ALL_HW_REGS[target],
     type       |-> IF target \in DOMAIN NES_PPU_REGS THEN "PPU" ELSE "APU",
     access     |-> IF mnem \in {"STA", "STX", "STY"} THEN "write" ELSE "read",
     mnemonic   |-> mnem]

\* while True: mark visited, decode, record, follow control flow
Decode ==
    /\ pc = "inner"
    /\ ~Skip(addr)
    /\ seen_addrs' = seen_addrs \cup {addr}
    /\ LET offset == addr - base IN
        /\ offset < Len(prg_data)
        /\ prg_data[offset + 1] \in KnownOpcodes
        /\ LET row    == OPCODES[prg_data[offset + 1]]
               mnem   == row[1]
               mode   == row[2]
               length == row[3]
               lo     == OperandByte(offset, 1, length)
               hi     == OperandByte(offset, 2, length)
               target == abs_addr(mode, lo, hi)
           IN
            /\ all_instructions' =
                 DictSet(all_instructions, addr, <<mnem, fmt_operand(mode, lo, hi, addr), length>>)
            /\ register_accesses' =
                 IF target # None /\ target \in DOMAIN ALL_HW_REGS
                 THEN Append(register_accesses, AccessSite(addr, target, mnem))
                 ELSE register_accesses
            /\ CASE mnem = "JSR" ->
                    /\ IF Truthy(target) /\ IntKey(target) \notin DOMAIN functions
                       THEN /\ functions' = DictSet(functions, StrKey(target),
                                   FunctionRecord(SubName(target), target, <<StrKey(addr)>>))
                            /\ queue' = Append(queue, target)
                       ELSE UNCHANGED <<functions, queue>>
                    /\ key_order' =
                         IF Truthy(target) /\ IntKey(target) \notin DOMAIN functions
                         THEN KeyInserted(KeyInserted(key_order, "all_instructions",
                                                      all_instructions, addr),
                                          "functions", functions, StrKey(target))
                         ELSE KeyInserted(key_order, "all_instructions",
                                          all_instructions, addr)
                    /\ addr' = addr + length
                    /\ pc' = "inner"
                 [] mnem = "JMP" /\ mode = "abs" ->
                    /\ queue' = IF Truthy(target) THEN Append(queue, target) ELSE queue
                    /\ UNCHANGED <<functions, addr>>
                    /\ key_order' = KeyInserted(key_order, "all_instructions",
                                                all_instructions, addr)
                    /\ pc' = "outer"
                 [] mnem \in BRANCHES ->
                    /\ queue' = Append(queue, addr + 2 + branch_offset(lo))
                    /\ addr' = addr + length
                    /\ pc' = "inner"
                    /\ key_order' = KeyInserted(key_order, "all_instructions",
                                                all_instructions, addr)
                    /\ UNCHANGED functions
                 [] mnem \in TERMINATORS \/ (mnem = "JMP" /\ mode # "abs") ->
                    /\ pc' = "outer"
                    /\ key_order' = KeyInserted(key_order, "all_instructions",
                                                all_instructions, addr)
                    /\ UNCHANGED <<functions, queue, addr>>
                 [] OTHER ->
                    /\ addr' = addr + length
                    /\ pc' = "inner"
                    /\ key_order' = KeyInserted(key_order, "all_instructions",
                                                all_instructions, addr)
                    /\ UNCHANGED <<functions, queue>>
    /\ UNCHANGED <<prg_data, vectors, run, first_run, disasm_files>>
    /\ CfrFrame

\* while queue: the queue is empty, the loop ends
Halt ==
    /\ pc = "outer"
    /\ queue = <<>>
    /\ pc' = "done"
    /\ UNCHANGED <<prg_data, vectors, queue, seen_addrs, all_instructions,
                   register_accesses, functions, addr, key_order, run, first_run, disasm_files>>
    /\ CfrFrame

NextCFR == Discard \/ Dequeue \/ RunEnd \/ DecodeFail \/ Decode \/ Halt

\* the tables a run ends with, and the order of their keys
RunTables ==
    [functions |-> functions, all_instructions |-> all_instructions,
     register_accesses |-> register_accesses, key_order |-> key_order]

\* disassemble_with_capstone is called once more on the same image and the
\* same manifest
Rerun ==
    /\ pc = "done"
    /\ run = 1
    /\ first_run' = RunTables
    /\ run' = 2
    /\ queue' = list_of_set(entry_addrs)
    /\ seen_addrs' = {}
    /\ all_instructions' = <<>>
    /\ register_accesses' = <<>>
    /\ functions' = <<>>
    /\ key_order' = <<>>
    /\ addr' = None
    /\ pc' = "outer"
    /\ UNCHANGED <<prg_data, vectors, disasm_files>>
    /\ CfrFrame

NextTwoRuns == Discard \/ Dequeue \/ RunEnd \/ DecodeFail \/ Decode \/ Halt \/ Rerun


----------------------------------------------------------------------------
(* translate_cpu.py: text                                                  *)
(*                                                                         *)
(* A text is a sequence of atoms: runs of blanks, the line break, and the  *)
(* pieces of words the code looks at (a mnemonic, "$", hex digits, ":").   *)

WS == {" ", "    ", "                 ", "\n"}

RECURSIVE RStrip(_)
\* str.rstrip()
RStrip(t) == IF t # <<>> /\ t[Len(t)] \in WS THEN RStrip(SubSeq(t, 1, Len(t) - 1)) ELSE t

RECURSIVE LStrip(_)
\* str.lstrip()
LStrip(t) == IF t # <<>> /\ Head(t) \in WS THEN LStrip(Tail(t)) ELSE t

\* str.strip()
Strip(t) == LStrip(RStrip(t))

RECURSIVE RStripAtom(_, _)
\* str.rstrip(c)
RStripAtom(t, c) == IF t # <<>> /\ t[Len(t)] = c THEN RStripAtom(SubSeq(t, 1, Len(t) - 1), c) ELSE t

RECURSIVE LStripAtom(_, _)
\* str.lstrip(c)
LStripAtom(t, c) == IF t # <<>> /\ Head(t) = c THEN LStripAtom(Tail(t), c) ELSE t

\* str.replace(x, "")
Remove(t, x) == SelectSeq(t, LAMBDA a : a # x)

\* the part of t before the first atom c: t.split(c)[0]
Before(t, c) ==
    LET hits == {i \in DOMAIN t : t[i] = c}
    IN  IF hits = {} THEN t
        ELSE SubSeq(t, 1, (CHOOSE i \in hits : \A j \in hits : i <= j) - 1)

RECURSIVE Words(_)
\* str.split(): the words of t, each a sequence of atoms
Words(t) ==
    LET u == LStrip(t) IN
    IF u = <<>> THEN <<>>
    ELSE LET ws == {i \in DOMAIN u : u[i] \in WS}
             n  == IF ws = {} THEN Len(u) + 1 ELSE CHOOSE i \in ws : \A j \in ws : i <= j
         IN  <<SubSeq(u, 1, n - 1)>> \o Words(SubSeq(u, n, Len(u)))

RECURSIVE Join(_)
\* "".join(chunks)
Join(chunks) == IF chunks = <<>> THEN <<>> ELSE Head(chunks) \o Join(Tail(chunks))

\* hex-digit atoms of the model, with int(h, 16)
HexVal ==
    ("1" :> 1) @@ ("01" :> 1) @@ ("2000" :> 8192) @@ ("2002" :> 8194) @@ ("2004" :> 8196)
    @@ ("2007" :> 8199) @@ ("8005" :> 32773) @@ ("C000" :> 49152) @@ ("c000" :> 49152)
    @@ ("FFFC" :> 65532) @@ ("fffc" :> 65532) @@ ("400A" :> 16394) @@ ("400a" :> 16394)

HexAtoms == DOMAIN HexVal

\* h.upper().zfill(2)
UpperZfill2(h) ==
    CASE h = "1" -> "01" [] h = "c000" -> "C000" [] h = "fffc" -> "FFFC"
      [] h = "400a" -> "400A" [] OTHER -> h

\* str.lower() of an atom
Lower(a) ==
    CASE a = "C000" -> "c000" [] a = "FFFC" -> "fffc" [] a = "X" -> "x" [] a = "Y" -> "y"
      [] a = "400A" -> "400a" [] a = "STA" -> "sta"
      [] OTHER -> a

\* str.upper() of an atom
Upper(a) ==
    CASE a = "c000" -> "C000" [] a = "fffc" -> "FFFC" [] a = "x" -> "X" [] a = "y" -> "Y"
      [] a = "400a" -> "400A" [] a = "sta" -> "STA"
      [] OTHER -> a

\* atoms that do not end in a word character (\w)
NonWordAtoms == WS \cup {"", "#", "$", "(", ")", ",", ";", ":", "<UNSUPPORTED>"}

RECURSIVE HexSubs(_, _)
\* the two re.sub calls of normalize_ghidra_line: 0x<hex> after "#", or after
\* anything that is neither "#" nor a word character, becomes $<HEX>
HexSubs(t, prev) ==
    IF t = <<>> THEN <<>>
    ELSE IF Len(t) >= 2 /\ t[1] = "0x" /\ t[2] \in HexAtoms /\ prev \in NonWordAtoms
         THEN <<"$", UpperZfill2(t[2])>> \o HexSubs(SubSeq(t, 3, Len(t)), t[2])
         ELSE <<t[1]>> \o HexSubs(Tail(t), t[1])

\* normalize_ghidra_line: the tag removed, the end stripped (line break and
\* all), the hex literals rewritten
normalize_ghidra_line(line) == HexSubs(RStrip(Remove(line, "<UNSUPPORTED>")), "")

----------------------------------------------------------------------------
(* translate_cpu.py: tables                                                *)

HW_WRITE_WRAPPERS ==
    ("2000" :> "PPU_CTRL_WRITE") @@ ("2001" :> "PPU_MASK_WRITE") @@ ("2003" :> "OAM_ADDR_WRITE")
    @@ ("2004" :> "OAM_DATA_WRITE") @@ ("2005" :> "PPU_SCROLL_WRITE") @@ ("2006" :> "PPU_ADDR_WRITE")
    @@ ("2007" :> "PPU_DATA_WRITE") @@ ("4014" :> "OAM_DMA_TRIGGER") @@ ("4000" :> "APU_SQ1_VOL")
    @@ ("4001" :> "APU_SQ1_SWEEP") @@ ("4002" :> "APU_SQ1_LO") @@ ("4003" :> "APU_SQ1_HI")
    @@ ("4004" :> "APU_SQ2_VOL") @@ ("4005" :> "APU_SQ2_SWEEP") @@ ("4006" :> "APU_SQ2_LO")
    @@ ("4007" :> "APU_SQ2_HI") @@ ("4008" :> "APU_TRI_LINEAR") @@ ("400a" :> "APU_TRI_LO")
    @@ ("400b" :> "APU_TRI_HI") @@ ("400c" :> "APU_NOISE_VOL") @@ ("400e" :> "APU_NOISE_LO")
    @@ ("400f" :> "APU_NOISE_HI") @@ ("4010" :> "APU_DMC_FREQ") @@ ("4011" :> "APU_DMC_RAW")
    @@ ("4012" :> "APU_DMC_START") @@ ("4013" :> "APU_DMC_LEN") @@ ("4015" :> "APU_STATUS_WRITE")
    @@ ("4017" :> "APU_FRAME_CNT")

HW_READ_WRAPPERS ==
    ("2002" :> "PPU_STATUS_READ") @@ ("2007" :> "PPU_DATA_READ") @@ ("4015" :> "APU_STATUS_READ")
    @@ ("4016" :> "JOYPAD1_READ") @@ ("4017" :> "JOYPAD2_READ")

STORE_MNEMONICS == {"STA", "STX", "STY", "STZ"}

LOAD_MNEMONICS == {"LDA", "LDX", "LDY", "BIT"}

BRANCH_MNEMONICS == {"BCC", "BCS", "BEQ", "BNE", "BPL", "BMI", "BVC", "BVS"}

\* (a plausible slip: one pair of the table crossed)
BRANCH_INVERT_crossed ==
    ("BCC" :> "BCS") @@ ("BCS" :> "BCC") @@ ("BEQ" :> "BNE") @@ ("BNE" :> "BEQ")
    @@ ("BPL" :> "BMI") @@ ("BMI" :> "BPL") @@ ("BVC" :> "BCS") @@ ("BVS" :> "BVC")

BRANCH_INVERT ==
    ("BCC" :> "BCS") @@ ("BCS" :> "BCC") @@ ("BEQ" :> "BNE") @@ ("BNE" :> "BEQ")
    @@ ("BPL" :> "BMI") @@ ("BMI" :> "BPL") @@ ("BVC" :> "BVS") @@ ("BVS" :> "BVC")

\* the twelve lines of RESET_PREAMBLE_65816, each ending in a line break
RESET_PREAMBLE_65816 ==
    <<"    ", ";", " ", "=== 65816 initialization - injected by translate_cpu.py ===", "\n",
      "    ", "SEI", "                 ", ";", " ", "disable interrupts", "\n",
      "    ", "CLC", "\n",
      "    ", "XCE", "                 ", ";", " ", "switch CPU to 65816 native mode", "\n",
      "    ", "REP", " ", "#", "$", "30", "    ", ";", " ", "A/X/Y = 16-bit", "\n",
      "    ", "LDX", " ", "#", "$", "01FF", "\n",
      "    ", "TXS", "                 ", ";", " ", "set stack pointer", "\n",
      "    ", "REP", " ", "#", "$", "20", "    ", ";", " ", "A = 16-bit", "\n",
      "    ", "LDA", " ", "#", "$", "0000", "\n",
      "    ", "TCD", "                 ", ";", " ", "Direct Page register = $0000 (Zero Page compat)", "\n",
      "    ", "SEP", " ", "#", "$", "30", "    ", ";", " ", "back to 8-bit A/X/Y for NES code compatibility", "\n",
      "    ", ";", " ", "=== end 65816 init ===", "\n">>

\* f"_brl_{k}"
SkipLabel(k) == "_brl_" \o ToString(k)

\* LLM_TRIGGER_PATTERNS, searched in the normalized line
IsBankAtom(a) == a \in {"bank", "Bank", "BANK"}

IsSelfModifAtom(a) == a \in {"self-modifying", "self-modified", "Self-modifying"}

Pattern_IndirectJump(t) ==
    \E i \in DOMAIN t : Upper(t[i]) = "JMP" /\
        \E j \in (i + 2)..Len(t) : t[j] = "(" /\ \A k \in (i + 1)..(j - 1) : t[k] \in WS

Pattern_SelfModif(t) ==
    \E i \in DOMAIN t : t[i] = ";" /\
        \E j \in (i + 1)..Len(t) : IsSelfModifAtom(t[j]) /\ \A k \in (i + 1)..(j - 1) : t[k] \in WS

Pattern_BankJsr(t) ==
    \E i \in DOMAIN t : Upper(t[i]) = "JSR" /\
        \E j \in (i + 1)..Len(t) : IsBankAtom(t[j]) /\ \A k \in (i + 1)..j : t[k] # "\n"

Pattern_MapperLabel(t) ==
    \E i \in DOMAIN t : t[i] = "$" /\ i + 2 <= Len(t) /\ t[i + 2] = ":" /\
        t[i + 1] \in HexAtoms /\ HexVal[t[i + 1]] >= 32768 /\ HexVal[t[i + 1]] < 49152

LLM_TRIGGER(t) ==
    Pattern_IndirectJump(t) \/ Pattern_SelfModif(t) \/ Pattern_BankJsr(t) \/ Pattern_MapperLabel(t)



----------------------------------------------------------------------------
(* translate_cpu.py: Pass 1                                                *)

\* (a plausible slip: the operand compared as it is written)
NotLowered(w) == w

\* str.lower() / str.upper() of a word
LowerWord(w) == [i \in DOMAIN w |-> Lower(w[i])]

\* parts[0].upper(): a word of several atoms is no mnemonic of the tables
MnemOf(w) == IF Len(w) = 1 THEN Upper(w[1]) ELSE ""

\* op_lower in <wrapper table>: the key "$" + four hex digits
IsKey(w, table) == Len(w) = 2 /\ w[1] = "$" /\ w[2] \in DOMAIN table

\* line[: len(line) - len(line.lstrip())]
Indent(line) == SubSeq(line, 1, Len(line) - Len(LStrip(line)))

\* (a plausible slip: the "$" of a numeric label not stripped)
LabelAddrNoStrip(label_name) ==
    IF Len(label_name) = 1 /\ label_name[1] \in HexAtoms THEN HexVal[label_name[1]] ELSE None

\* int(label_name.lstrip("$"), 16), or None on ValueError
LabelAddr(label_name) ==
    LET d == LStripAtom(label_name, "$")
    IN  IF Len(d) = 1 /\ d[1] \in HexAtoms THEN HexVal[d[1]] ELSE None

\* what preprocess_line returns, with the counter as it leaves it
Result(out, needs_llm, counter) == [out |-> out, needs_llm |-> needs_llm, counter |-> counter]

preprocess_line(raw, reset_vec, skip_counter) ==
    LET line     == normalize_ghidra_line(raw)
        stripped == Strip(line)
        parts    == Words(stripped)
    IN
    IF stripped = <<>> \/ Head(stripped) = ";" \/ parts = <<>>
    THEN Result(line, FALSE, skip_counter)
    ELSE
    LET p0 == parts[1] IN
    IF p0[Len(p0)] = ":"
    THEN LET label_name == RStripAtom(p0, ":") IN
         IF label_name \in {<<"RESET">>, <<"RESET_HANDLER">>}
            \/ LabelAddr(label_name) = reset_vec
         THEN Result(line \o <<"\n">> \o RESET_PREAMBLE_65816, FALSE, skip_counter)
         ELSE Result(line, FALSE, skip_counter)
    ELSE
    LET mnem     == MnemOf(p0)
        op       == IF Len(parts) > 1 THEN parts[2] ELSE <<>>
        op_lower == Before(LowerWord(op), ",")
        indent   == Indent(line)
    IN
    IF mnem \in BRANCH_MNEMONICS
    THEN LET target   == Before(op, ";")
             inverted == BRANCH_INVERT[mnem]
             skip_lbl == SkipLabel(skip_counter)
         IN  Result(indent \o <<inverted, " ", skip_lbl, "    ", ";", " ", "was:", " ", mnem, " ">>
                        \o target \o <<"\n">>
                        \o indent \o <<"JMP", " ">> \o target \o <<"\n">>
                        \o <<skip_lbl, ":">>,
                    FALSE, skip_counter + 1)
    ELSE IF mnem \in STORE_MNEMONICS /\ IsKey(op_lower, HW_WRITE_WRAPPERS)
    THEN Result(indent \o <<"JSR", " ", HW_WRITE_WRAPPERS[op_lower[2]], "    ", ";", " ", "was:", " ", mnem, " ">> \o op,
                FALSE, skip_counter)
    ELSE IF mnem \in LOAD_MNEMONICS /\ IsKey(op_lower, HW_READ_WRAPPERS)
    THEN Result(indent \o <<"JSR", " ", HW_READ_WRAPPERS[op_lower[2]], "    ", ";", " ", "was:", " ", mnem, " ">> \o op,
                FALSE, skip_counter)
    ELSE Result(line,
                IF mnem = "JSR" THEN LLM_TRIGGER(line)
                ELSE mnem = "JMP" /\ \E i \in DOMAIN op : op[i] = "(",
                skip_counter)

\* (a plausible slip: every bank starts its own counter)
fresh_skip_counter(skip_counter) == 0

\* preprocess_bank: "if skip_counter is None: skip_counter = [0]"
bank_skip_counter(skip_counter) == IF skip_counter = None THEN 0 ELSE skip_counter

\* the lines of the bank in work
asm_lines == bank_files[Len(bank_files)]

\* lines read so far in the whole run
LinesRead == Len(Join(bank_files))

\* the lines a bank file of the model is written with: the disassemblers'
\* labels, comments and instructions, with and without rewrites
Pass1Lines ==
    {<<"\n">>,
     <<";", " ", "NES PRG Bank 00", "\n">>,
     <<"RESET_HANDLER", ":", "\n">>,
     <<"sub_8003", ":", "\n">>,
     <<"$", "C000", ":", "\n">>,
     <<"    ", "BNE", " ", "$", "8005", "\n">>,
     <<"    ", "STA", " ", "$", "2000", "\n">>,
     <<"    ", "LDA", " ", "$", "2002", "\n">>,
     <<"    ", "LDA", " ", "$", "2004", "\n">>,
     <<"    ", "LDA", " ", "#", "0x", "1", "\n">>,
     <<"    ", "STA", "    ", "$", "2007", ",", "X", "\n">>,
     <<"    ", "JMP", " ", "(", "$", "FFFC", ")", "\n">>,
     <<"    ", "RTS">>}

\* the vectors of the manifest a translation run reads
XlVectors == ("NMI" :> 32768) @@ ("RESET" :> 49152) @@ ("IRQ" :> 32773)

reset_vec == vectors["RESET"]

\* only the last line of a file can lack its line break (str.splitlines)
CanFollow(lines) ==
    IF lines = <<>> THEN TRUE ELSE lines[Len(lines)][Len(lines[Len(lines)])] = "\n"


nmi_vec == vectors["NMI"]

irq_vec == vectors["IRQ"]

----------------------------------------------------------------------------
(* translate_cpu.py: an expanded branch, as the CPU runs it                *)

RECURSIVE SplitLines(_)
\* the lines of a text, as the assembler reads them
SplitLines(t) ==
    IF t = <<>> THEN <<>>
    ELSE LET nl == {i \in DOMAIN t : t[i] = "\n"} IN
         IF nl = {} THEN <<t>>
         ELSE LET n == CHOOSE i \in nl : \A j \in nl : i <= j
              IN  <<SubSeq(t, 1, n - 1)>> \o SplitLines(SubSeq(t, n + 1, Len(t)))

\* the flag each conditional branch tests, and the value it branches on
BranchTest ==
    ("BCC" :> <<"C", FALSE>>) @@ ("BCS" :> <<"C", TRUE>>)
    @@ ("BNE" :> <<"Z", FALSE>>) @@ ("BEQ" :> <<"Z", TRUE>>)
    @@ ("BPL" :> <<"N", FALSE>>) @@ ("BMI" :> <<"N", TRUE>>)
    @@ ("BVC" :> <<"V", FALSE>>) @@ ("BVS" :> <<"V", TRUE>>)

Taken(mnem, flags) == flags[BranchTest[mnem][1]] = BranchTest[mnem][2]

\* the branch lines of the model, in the two disassemblers' layouts, one
\* with a comment behind the operand
BranchLines ==
    {<<"    ", m, " ", "$", "8005", "\n">> : m \in BRANCH_MNEMONICS}
    \cup {<<"    ", m, "    ", "$", "8005", " ", ";", " ", "loop", "\n">> : m \in BRANCH_MNEMONICS}

InitBranch ==
    /\ br_line \in BranchLines
    /\ br_flags \in [{"C", "Z", "N", "V"} -> BOOLEAN]
    /\ br_block = <<>>
    /\ br_ip = 0
    /\ br_dest = <<>>
    /\ br_pc = "raw"

\* Pass 1 rewrites the line (preprocess_line, lines 174-184)
Expand ==
    /\ br_pc = "raw"
    /\ br_block' = SplitLines(preprocess_line(br_line, reset_vec, global_skip_counter).out)
    /\ br_ip' = 1
    /\ br_pc' = "run"
    /\ UNCHANGED <<br_line, br_flags, br_dest>>
    /\ BrFrame

\* the words of the line the CPU is at
CurWords == IF br_ip \in DOMAIN br_block THEN Words(br_block[br_ip]) ELSE <<>>

\* the line of the block that defines a label
LabelLine(lbl) == {i \in DOMAIN br_block : Words(br_block[i]) # <<>>
                                          /\ Words(br_block[i])[1] = lbl \o <<":">>}

\* the CPU runs a conditional branch of the block
ExecBranch ==
    /\ br_pc = "run"
    /\ Len(CurWords) >= 2
    /\ Len(CurWords[1]) = 1
    /\ CurWords[1][1] \in BRANCH_MNEMONICS
    /\ IF Taken(CurWords[1][1], br_flags)
       THEN \E i \in LabelLine(CurWords[2]) : br_ip' = i
       ELSE br_ip' = br_ip + 1
    /\ UNCHANGED <<br_line, br_flags, br_block, br_dest, br_pc>>
    /\ BrFrame

\* the CPU runs the JMP of the block: control leaves for its operand
ExecJmp ==
    /\ br_pc = "run"
    /\ Len(CurWords) >= 2
    /\ CurWords[1] = <<"JMP">>
    /\ br_dest' = CurWords[2]
    /\ br_pc' = "jumped"
    /\ UNCHANGED <<br_line, br_flags, br_block, br_ip>>
    /\ BrFrame

\* a label line holds no instruction: the CPU is at the next line
ExecLabel ==
    /\ br_pc = "run"
    /\ CurWords # <<>>
    /\ CurWords[1][Len(CurWords[1])] = ":"
    /\ br_ip' = br_ip + 1
    /\ UNCHANGED <<br_line, br_flags, br_block, br_dest, br_pc>>
    /\ BrFrame

\* the CPU is behind the block: at the instruction that followed the branch
ExecEnd ==
    /\ br_pc = "run"
    /\ br_ip = Len(br_block) + 1
    /\ br_pc' = "fell"
    /\ UNCHANGED <<br_line, br_flags, br_block, br_ip, br_dest>>
    /\ BrFrame

NextBranch == Expand \/ ExecBranch \/ ExecJmp \/ ExecLabel \/ ExecEnd

----------------------------------------------------------------------------
(* translate_cpu.py: the oracle and call_llm_translate                     *)

\* the texts an oracle call of the model can return, as they stand after the
\* code fences are stripped (line 343). A text is one atom; of it the model
\* keeps what the code looks at: whether ca65 assembles it, and how many
\* "; REVIEW:" markers it holds
SampleAnswers ==
    ("<text: assembles, no REVIEW>" :> [valid |-> TRUE, reviews |-> 0])
    @@ ("<text: assembles, 6 REVIEW>" :> [valid |-> TRUE, reviews |-> 6])
    @@ ("<text: does not assemble, no REVIEW>" :> [valid |-> FALSE, reviews |-> 0])
    @@ ("<text: does not assemble, 6 REVIEW>" :> [valid |-> FALSE, reviews |-> 6])

\* review markers an accepted text of the model holds at most
MaxReviews == 12

\* a text ca65 assembles, with n lines "; REVIEW:"
ReviewText(n) == "<text: assembles, REVIEW x " \o ToString(n) \o ">"

ReviewAnswers ==
    [t \in {ReviewText(n) : n \in 0..MaxReviews} |->
        [valid |-> TRUE, reviews |-> CHOOSE n \in 0..MaxReviews : ReviewText(n) = t]]

\* what validate_asm_snippet and str.count say of each text of the model
OracleAnswers == SampleAnswers @@ ReviewAnswers

OracleTexts == DOMAIN OracleAnswers

\* what one backend call does (lines 332-341): it returns a text, or raises
\* an exception: a timeout (requests' timeout=120), or another failure of
\* the transport or the oracle
OracleOutcomes ==
    {[raised |-> "timeout", text |-> ""], [raised |-> "error", text |-> ""]}
    \cup {[raised |-> "no", text |-> t] : t \in DOMAIN SampleAnswers}

\* a backend that returns texts with any number of review markers, or a
\* text that does not assemble, or fails
ReviewOutcomes ==
    {[raised |-> "error", text |-> ""],
     [raised |-> "no", text |-> "<text: does not assemble, 6 REVIEW>"]}
    \cup {[raised |-> "no", text |-> ReviewText(n)] : n \in 0..MaxReviews}

\* (a plausible slip: a handler for the transport's errors only)
CaughtNoTimeout(raised) == raised = "error"

\* "except Exception": every exception a backend call raises is one
Caught(raised) == raised \in {"timeout", "error"}

\* f"{name}_65816"
Name65816(name) == name \o "_65816"

\* the stub of lines 356-361
Stub(name) == <<Name65816(name), ":", "\n", "    ", "BRK", "\n", "    ", "RTL">>

\* (a plausible slip: the validation result ignored)
accept_unvalidated(text) == TRUE

\* validate_asm_snippet: whether ca65 assembles the text
validate_asm_snippet(text) == OracleAnswers[text].valid

\* translated.count("; REVIEW:")
CountReview(text) == OracleAnswers[text].reviews

\* (a plausible slip: the score not clamped at zero)
ConfidenceUnclamped(review_count) == 100 - review_count * 10

\* round(max(0.0, 1.0 - review_count * 0.1), 2), in hundredths: the float
\* product is off the decimal by less than 1e-15, which the rounding removes
Confidence(review_count) == IF 100 - review_count * 10 > 0 THEN 100 - review_count * 10 ELSE 0

\* (a plausible slip: the block appended without its guard)
Unguarded(name, body) == body

\* f".ifndef {guard_label}\n{translated}\n.endif"
Guarded(name, body) == <<".ifndef", " ", Name65816(name), "\n">> \o body \o <<"\n", ".endif">>

\* one iteration of the loop of call_llm_translate (lines 319-374) whose
\* exception, if any, is caught: the entry appended to results
TranslateOne(func, outcome) ==
    LET accepted == IF outcome.raised = "no" THEN validate_asm_snippet(outcome.text) ELSE FALSE
        review_count == IF accepted THEN CountReview(outcome.text) ELSE 0
        confidence   == IF accepted THEN Confidence(review_count) ELSE 0
        body         == IF accepted THEN <<outcome.text>> ELSE Stub(func.name)
    IN  [addr |-> func.addr_str, name |-> func.name,
         translated |-> Guarded(func.name, body),
         confidence |-> confidence, review_count |-> review_count]

\* lines 434-446: the functions sent for a bank
funcs_to_translate ==
    SelectSeq(functions_data,
              LAMBDA f : f.addr \in {nmi_vec, irq_vec} \/ llm_lines # <<>>)

RECURSIVE LlmSectionAccepted(_)
\* (a plausible slip: a result of low confidence left out of the section)
LlmSectionAccepted(rs) ==
    IF rs = <<>> THEN <<>>
    ELSE (IF Head(rs).confidence < 50 THEN <<>>
          ELSE <<"\n">> \o Head(rs).translated \o <<"\n">>)
         \o LlmSectionAccepted(Tail(rs))

\* lines 460-465: the section appended to the bank output
RECURSIVE LlmSection(_)
LlmSection(rs) ==
    IF rs = <<>> THEN <<>>
    ELSE <<"\n">> \o Head(rs).translated \o <<"\n">>
         \o (IF Head(rs).confidence < 50
             THEN <<";", " ", "WARNING: low confidence - manual review needed", "\n">>
             ELSE <<>>)
         \o LlmSection(Tail(rs))

LlmHeader == <<"\n", ";", " ", "---- LLM-translated functions ----", "\n">>

\* functions.json of the model: none, one or both of the NMI handler and a
\* subroutine
FunctionsJson ==
    {<<>>,
     <<[addr |-> 32784, addr_str |-> StrKey(32784), name |-> "sub_8010"]>>,
     <<[addr |-> 32768, addr_str |-> StrKey(32768), name |-> "NMI_HANDLER"]>>,
     <<[addr |-> 32768, addr_str |-> StrKey(32768), name |-> "NMI_HANDLER"],
       [addr |-> 32784, addr_str |-> StrKey(32784), name |-> "sub_8010"]>>}

\* the lines of the bank files of a run that calls the oracle
OracleLines ==
    {<<"NMI_HANDLER", ":", "\n">>,
     <<"    ", "RTS", "\n">>,
     <<"    ", "JMP", " ", "(", "$", "FFFC", ")", "\n">>}

----------------------------------------------------------------------------
(* translate_cpu.py: translate_banks                                       *)

InitXl(llm) ==
    /\ vectors = XlVectors
    /\ bank_files = <<>>
    /\ out_files = <<>>
    /\ out_lines = <<>>
    /\ llm_lines = <<>>
    /\ global_skip_counter = 0
    /\ use_llm = llm
    /\ functions_data \in (IF llm THEN FunctionsJson ELSE {<<>>})
    /\ translation_log = <<>>
    /\ todo = <<>>
    /\ results = <<>>
    /\ replies = <<>>
    /\ tpc = "banks"

\* sorted(disasm_dir.glob("bank_*.asm")): the directory of the model holds
\* these files, or the first of them, or none
BankNames == <<"bank_00.asm", "bank_01.asm">>

\* for bank_file in bank_files: read the file, enter preprocess_bank
StartBank ==
    /\ tpc = "banks"
    /\ Len(bank_files) < Len(BankNames)
    /\ bank_files' = Append(bank_files, <<>>)
    /\ out_lines' = <<>>
    /\ llm_lines' = <<>>
    /\ global_skip_counter' = bank_skip_counter(global_skip_counter)
    /\ tpc' = "pass1"
    /\ UNCHANGED <<out_files, use_llm, functions_data, translation_log, todo, results, replies>>
    /\ XlFrame

\* preprocess_bank: one iteration of "for i, line in enumerate(lines)"
ProcessLine(lines, maxLines) ==
    /\ tpc = "pass1"
    /\ LinesRead < maxLines
    /\ CanFollow(asm_lines)
    /\ \E line \in lines :
        LET r == preprocess_line(line, reset_vec, global_skip_counter) IN
        /\ bank_files' = [bank_files EXCEPT ![Len(bank_files)] = Append(@, line)]
        /\ out_lines' = Append(out_lines, r.out)
        /\ llm_lines' = IF r.needs_llm THEN Append(llm_lines, Len(asm_lines)) ELSE llm_lines
        /\ global_skip_counter' = r.counter
    /\ UNCHANGED <<out_files, use_llm, functions_data, translation_log, todo, results, replies, tpc>>
    /\ XlFrame

\* the test of lines 433 and 448
Pass2Runs == use_llm /\ functions_data # <<>> /\ funcs_to_translate # <<>>

\* the bank has no Pass 2: the Pass-1 text is written
WriteBank ==
    /\ tpc = "pass1"
    /\ ~Pass2Runs
    /\ out_files' = Append(out_files, Join(out_lines))
    /\ tpc' = "banks"
    /\ UNCHANGED <<bank_files, out_lines, llm_lines, global_skip_counter, use_llm,
                   functions_data, translation_log, todo, results, replies>>
    /\ XlFrame

\* Pass 2: call_llm_translate is entered with funcs_to_translate
BeginBatch ==
    /\ tpc = "pass1"
    /\ Pass2Runs
    /\ todo' = funcs_to_translate
    /\ results' = <<>>
    /\ replies' = <<>>
    /\ tpc' = "oracle"
    /\ UNCHANGED <<bank_files, out_files, out_lines, llm_lines, global_skip_counter,
                   use_llm, functions_data, translation_log>>
    /\ XlFrame

\* call_llm_translate: one iteration of "for func in functions_batch"
OracleCallFrom(outcomes) ==
    /\ tpc = "oracle"
    /\ todo # <<>>
    /\ \E outcome \in outcomes :
        /\ replies' = Append(replies, outcome)
        /\ IF outcome.raised = "no" \/ Caught(outcome.raised)
           THEN /\ results' = Append(results, TranslateOne(Head(todo), outcome))
                /\ todo' = Tail(todo)
                /\ tpc' = "oracle"
           ELSE /\ tpc' = "raised"
                /\ UNCHANGED <<results, todo>>
    /\ UNCHANGED <<bank_files, out_files, out_lines, llm_lines, global_skip_counter,
                   use_llm, functions_data, translation_log>>
    /\ XlFrame

OracleCall == OracleCallFrom(OracleOutcomes)

\* call_llm_translate returns: the log is extended, the section appended,
\* the bank output written
EndBatch ==
    /\ tpc = "oracle"
    /\ todo = <<>>
    /\ translation_log' = translation_log \o results
    /\ out_files' = Append(out_files, Join(out_lines) \o LlmHeader \o LlmSection(results))
    /\ tpc' = "banks"
    /\ UNCHANGED <<bank_files, out_lines, llm_lines, global_skip_counter, use_llm,
                   functions_data, todo, results, replies>>
    /\ XlFrame

\* the loop over the bank files is over: the translation log is written
Finish ==
    /\ tpc = "banks"
    /\ tpc' = "done"
    /\ UNCHANGED <<bank_files, out_files, out_lines, llm_lines, global_skip_counter,
                   use_llm, functions_data, translation_log, todo, results, replies>>
    /\ XlFrame

vars == <<cfrVars, xlVars, brVars, restVars>>

\* the pipeline driver is not part of the run
MainIdle ==
    /\ skip_audio = FALSE /\ stage_results = <<>> /\ manifest = {} /\ stages_run = <<>>
    /\ build_reports = <<>> /\ exit_status = None /\ fidelity = <<>> /\ m_pc = "idle"

\* the dashboard is not part of the run
DashIdle ==
    /\ pipeline_status = "idle" /\ state_stages = <<>> /\ broadcasts = <<>>
    /\ archived = 0 /\ d_pc = "idle"

\* no client and no broadcast
SseIdle ==
    /\ sse_queues = <<>> /\ q_items = <<>> /\ q_history = <<>> /\ q_joined = <<>>
    /\ client = <<>> /\ b_sent = 0 /\ b_iter = 0 /\ dead = <<>> /\ b_pc = "idle"

\* no stage output is read
StrIdle ==
    /\ stage_output = <<>> /\ pipe = <<>> /\ buffer = <<>> /\ llm_tokens = <<>>
    /\ log_lines = <<>> /\ s_pc = "idle"

\* Ghidra is not run
GhIdle ==
    /\ gh_num_banks = 0 /\ gh_bank_idx = 0 /\ analysis = <<>> /\ funcs_file = <<>>
    /\ regs_file = <<>> /\ all_functions = {} /\ all_reg_accesses = <<>> /\ gh_pc = "idle"

RestIdle == MainIdle /\ DashIdle /\ SseIdle /\ StrIdle /\ GhIdle

\* no branch is run
BrIdle ==
    /\ br_line = <<>> /\ br_flags = <<>> /\ br_block = <<>> /\ br_ip = 0
    /\ br_dest = <<>> /\ br_pc = "idle"

\* the translator has not run
XlIdle ==
    /\ bank_files = <<>> /\ out_files = <<>> /\ out_lines = <<>> /\ llm_lines = <<>>
    /\ global_skip_counter = 0 /\ use_llm = FALSE /\ functions_data = <<>>
    /\ translation_log = <<>> /\ todo = <<>> /\ results = <<>> /\ replies = <<>>
    /\ tpc = "idle"

\* the disassembler is not part of the run
CfrIdle ==
    /\ prg_data = <<>> /\ queue = <<>> /\ seen_addrs = {} /\ all_instructions = <<>>
    /\ register_accesses = <<>> /\ functions = <<>> /\ addr = None /\ pc = "idle"
    /\ key_order = <<>> /\ run = 0 /\ first_run = <<>> /\ disasm_files = <<>>

InitDisassemble == InitCFR /\ XlIdle /\ BrIdle /\ RestIdle

\* the fallback disassembler
SpecCFR == InitDisassemble /\ [][NextCFR]_vars

NextPass1 ==
    \/ StartBank
    \/ ProcessLine(Pass1Lines, MaxLines)
    \/ WriteBank
    \/ Finish

InitPass1 == InitXl(FALSE) /\ CfrIdle /\ BrIdle /\ RestIdle

\* translate_banks without the oracle (--no-llm, or no backend to reach)
SpecPass1 == InitPass1 /\ [][NextPass1]_vars

NextOracle ==
    \/ StartBank
    \/ ProcessLine(OracleLines, MaxOracleLines)
    \/ WriteBank
    \/ BeginBatch
    \/ OracleCall
    \/ EndBatch
    \/ Finish

InitOracle == InitXl(TRUE) /\ CfrIdle /\ BrIdle /\ RestIdle

\* translate_banks with the oracle
SpecOracle == InitOracle /\ [][NextOracle]_vars

\* lines read in a run over annotated lines
MaxTriggerLines == 2

\* lines with and without the annotations the trigger patterns look for
TriggerLines ==
    {<<"    ", "JMP", " ", "(", "$", "FFFC", ")", "\n">>,
     <<"    ", "JSR", " ", "$", "8005", "\n">>,
     <<"    ", "JSR", " ", "$", "8005", " ", ";", " ", "bank", "\n">>,
     <<"    ", "JSR", " ", "$", "8005", " ", ";", " ", "self-modifying", "\n">>,
     <<"    ", "LDA", " ", "$", "01", " ", ";", " ", "self-modifying", "\n">>,
     <<"    ", "STA", " ", "$", "2000", " ", ";", " ", "self-modifying", "\n">>,
     <<"    ", "RTS", "\n">>}

NextTrigger ==
    \/ StartBank
    \/ ProcessLine(TriggerLines, MaxTriggerLines)
    \/ WriteBank
    \/ Finish

\* translate_banks without the oracle, over annotated lines
SpecTrigger == InitPass1 /\ [][NextTrigger]_vars

NextReviews ==
    \/ StartBank
    \/ WriteBank
    \/ BeginBatch
    \/ OracleCallFrom(ReviewOutcomes)
    \/ EndBatch
    \/ Finish

\* translate_banks with an oracle whose texts hold review markers, over
\* banks without lines
SpecReviews == InitOracle /\ [][NextReviews]_vars

\* lines read in a run over store lines
MaxStoreLines == 2

\* stores and loads, to hardware registers with and without a write
\* wrapper and to memory, in the layouts of both disassemblers
StoreLines ==
    {<<"    ", "STA", " ", "$", "2000", "\n">>,
     <<"STX", " ", "$", "2000", "\n">>,
     <<"                 ", "STY", " ", "$", "2007", "\n">>,
     <<"    ", "STA", "    ", "$", "2007", ",", "X", "\n">>,
     <<"    ", "sta", " ", "0x", "400a", "\n">>,
     <<"    ", "STA", " ", "$", "2002", "\n">>,
     <<"    ", "STA", " ", "$", "01", "\n">>,
     <<"    ", "LDA", " ", "$", "2002", "\n">>}

NextStores ==
    \/ StartBank
    \/ ProcessLine(StoreLines, MaxStoreLines)
    \/ WriteBank
    \/ Finish

\* translate_banks without the oracle, over store lines
SpecStores == InitPass1 /\ [][NextStores]_vars

\* the interpreter runs the loop on: it never stops before the queue is empty
\* the translator is at a branch line of some bank, the counter at some value
InitExpanded ==
    /\ InitBranch /\ CfrIdle /\ RestIdle
    /\ vectors = XlVectors
    /\ bank_files = <<>> /\ out_files = <<>> /\ out_lines = <<>> /\ llm_lines = <<>>
    /\ global_skip_counter \in {0, 7}
    /\ use_llm = FALSE /\ functions_data = <<>>
    /\ translation_log = <<>> /\ todo = <<>> /\ results = <<>> /\ replies = <<>>
    /\ tpc = "pass1"

\* one conditional branch, expanded and run
SpecBranch == InitExpanded /\ [][NextBranch]_vars

FairCFR == SpecCFR /\ WF_vars(NextCFR)

\* the fallback disassembler, run twice on the same input
SpecTwoRuns == InitDisassemble /\ [][NextTwoRuns]_vars

\* the size of one PRG bank (line 366)
bank_size == 16384

\* displacement bytes of the branch: forward and backward, short and long
TopDisplacements == {0, 5, 6, 100, 127, 128, 200, 252, 255}

\* vectors of an image of two banks, which fills $8000-$FFFF: the reset
\* handler stands right below the vector table
TopVectorChoices ==
    ("NMI" :> {65526, 65528}) @@ ("RESET" :> {65528}) @@ ("IRQ" :> {65528, 32767})

\* an image of two banks: NOP, NOP at $FFF6, a BNE with displacement d at
\* $FFF8, the vector table at $FFFA-$FFFF, no opcode anywhere else
TopImage(v, d) ==
    [i \in 1..2 * bank_size |->
        CASE i \in {2 * bank_size - 9, 2 * bank_size - 8} -> 234
          [] i = 2 * bank_size - 7 -> 208
          [] i = 2 * bank_size - 6 -> d
          [] i = 2 * bank_size - 5 -> v["NMI"] % 256
          [] i = 2 * bank_size - 4 -> v["NMI"] \div 256
          [] i = 2 * bank_size - 3 -> v["RESET"] % 256
          [] i = 2 * bank_size - 2 -> v["RESET"] \div 256
          [] i = 2 * bank_size - 1 -> v["IRQ"] % 256
          [] i = 2 * bank_size     -> v["IRQ"] \div 256
          [] OTHER -> 128]

InitTop ==
    /\ vectors \in {v \in [VecNames -> UNION {TopVectorChoices[k] : k \in VecNames}] :
                       \A k \in VecNames : v[k] \in TopVectorChoices[k]}
    /\ \E d \in TopDisplacements : prg_data = TopImage(vectors, d)
    /\ pc = "outer"
    /\ run = 1
    /\ first_run = <<>>
    /\ disasm_files = <<>>
    /\ queue = list_of_set(entry_addrs)
    /\ seen_addrs = {}
    /\ all_instructions = <<>>
    /\ register_accesses = <<>>
    /\ functions = <<>>
    /\ key_order = <<>>
    /\ addr = None
    /\ XlIdle /\ BrIdle /\ RestIdle

\* the fallback disassembler on an image that reaches the top of the
\* 16-bit address space
SpecTop == InitTop /\ [][NextCFR]_vars

----------------------------------------------------------------------------
(* Properties of the traversal                                             *)

\* C1 witness: the loop has ended with as many instructions as image bytes
C1_Witness ==
    /\ pc = "done"
    /\ queue = <<>>
    /\ Cardinality(DOMAIN all_instructions) = prg_size
    /\ prg_size >= 2

\* C1: the work-queue loop halts with an empty queue, and the Instruction
\* table never holds more entries than the image has bytes
C1_TraversalHalts ==
    /\ <>[](pc = "done" /\ queue = <<>>)
    /\ [](Cardinality(DOMAIN all_instructions) <= prg_size)

\* number of RegisterAccessSites recorded for the instruction at a
SitesAt(sites, a) == Cardinality({i \in DOMAIN sites : sites[i].address = StrKey(a)})

\* the tables the traversal records into
Tables == <<all_instructions, register_accesses, functions, seen_addrs>>

\* C2: an address is marked visited and decoded at most once; a visited
\* address is never decoded again, its Instruction entry is never rewritten,
\* no second RegisterAccessSite is appended for it, and reaching it ends the
\* current linear run
C2_DecodedOnce ==
    /\ [](/\ DOMAIN all_instructions \subseteq seen_addrs
          /\ \A a \in seen_addrs : SitesAt(register_accesses, a) <= 1)
    /\ [][/\ seen_addrs \subseteq seen_addrs'
          /\ seen_addrs' # seen_addrs =>
                (pc = "inner" /\ addr \notin seen_addrs /\ seen_addrs' = seen_addrs \cup {addr})
          /\ (all_instructions' # all_instructions \/ register_accesses' # register_accesses) =>
                seen_addrs' # seen_addrs
          /\ \A a \in seen_addrs :
                /\ (a \in DOMAIN all_instructions') <=> (a \in DOMAIN all_instructions)
                /\ a \in DOMAIN all_instructions => all_instructions'[a] = all_instructions[a]
                /\ SitesAt(register_accesses', a) = SitesAt(register_accesses, a)
          /\ (pc = "inner" /\ addr \in seen_addrs) =>
                (pc' = "outer" /\ UNCHANGED <<Tables, queue>>)
         ]_vars

\* C2 witness: a linear run has reached an address that was decoded before
C2_Witness ==
    /\ pc = "outer"
    /\ addr \in DOMAIN all_instructions
    /\ all_instructions[addr][1] \notin TERMINATORS \cup {"JMP"}
    /\ \E a \in DOMAIN all_instructions : a < addr /\ a + all_instructions[a][3] = addr
    /\ register_accesses # <<>>

\* base <= a < base + image size
InImage(a) == 32768 <= a /\ a < 32768 + Len(prg_data)

\* C3 witness: an address outside the image was dequeued and dropped, and an
\* instruction has been recorded
C3_Witness ==
    /\ pc = "outer"
    /\ addr # None /\ ~InImage(addr)
    /\ all_instructions # <<>>
    /\ queue # <<>>

\* C3: every recorded instruction address lies in [base, base + size); an
\* out-of-range address, dequeued or reached by fallthrough, is dropped with
\* nothing recorded, and the traversal goes on
C3_InRange ==
    /\ [](/\ \A a \in DOMAIN all_instructions : InImage(a)
          /\ pc # "done" => ENABLED NextCFR)
    /\ [][/\ (pc = "outer" /\ queue # <<>> /\ ~InImage(queue[Len(queue)])) =>
                /\ queue' = SubSeq(queue, 1, Len(queue) - 1)
                /\ pc' = "outer"
                /\ UNCHANGED Tables
          /\ (pc = "inner" /\ ~InImage(addr)) =>
                (pc' = "outer" /\ UNCHANGED <<Tables, queue>>)
         ]_vars

----------------------------------------------------------------------------
(* Pass 1: what the claims speak of                                        *)

\* the first word of a line, and its second
FirstWord(line) == IF Words(line) = <<>> THEN <<>> ELSE Words(line)[1]

SecondWord(line) == IF Len(Words(line)) < 2 THEN <<>> ELSE Words(line)[2]

IsComment(line) == FirstWord(line) # <<>> /\ FirstWord(line)[1] = ";"

IsLabel(line) == FirstWord(line) # <<>> /\ ~IsComment(line)
                 /\ FirstWord(line)[Len(FirstWord(line))] = ":"

IsInstruction(line) == FirstWord(line) # <<>> /\ ~IsComment(line) /\ ~IsLabel(line)

IsBranchLine(line) == IsInstruction(line) /\ FirstWord(line) \in {<<m>> : m \in BRANCH_MNEMONICS}

\* a label line that names the reset handler: by name, or by a hex address
\* that is the reset vector
IsResetLabel(line) ==
    /\ IsLabel(line)
    /\ \/ FirstWord(line) \in {<<"RESET", ":">>, <<"RESET_HANDLER", ":">>}
       \/ \E h \in HexAtoms : /\ FirstWord(line) \in {<<h, ":">>, <<"$", h, ":">>}
                              /\ HexVal[h] = reset_vec

\* the hardware address an instruction names as its absolute or
\* absolute-indexed operand, or None
HwOperand(line) ==
    LET op == SecondWord(normalize_ghidra_line(line)) IN
    IF /\ IsInstruction(line)
       /\ Len(op) \in {2, 4}
       /\ op[1] = "$"
       /\ op[2] \in HexAtoms
       /\ (Len(op) = 4 => op[3] = "," /\ op[4] \in {"X", "Y"})
    THEN (IF HexVal[op[2]] \in DOMAIN ALL_HW_REGS THEN HexVal[op[2]] ELSE None)
    ELSE None

\* the wrapper symbols configured for a hardware address
WrappersOf(a) ==
    {HW_WRITE_WRAPPERS[k] : k \in {k \in DOMAIN HW_WRITE_WRAPPERS \cap HexAtoms : HexVal[k] = a}}
    \cup {HW_READ_WRAPPERS[k] : k \in {k \in DOMAIN HW_READ_WRAPPERS \cap HexAtoms : HexVal[k] = a}}

\* the text written so far in the run, with the bank in work
Emitted == Join(out_files) \o (IF tpc = "pass1" THEN Join(out_lines) ELSE <<>>)

\* the skip labels a run of the model can hand out
SkipLabelNames == {SkipLabel(k) : k \in 0..(MaxLines + 1)}

\* the places of a text where a skip label is defined
LabelDefs(t) == {i \in 1..(Len(t) - 1) : t[i + 1] = ":" /\ t[i] \in SkipLabelNames}

\* the places of a text where a reset preamble starts
Preambles(t) == {i \in DOMAIN t : t[i] = RESET_PREAMBLE_65816[4]}

\* this step is an iteration of preprocess_bank's loop, and read this line
ReadLine == bank_files'[Len(bank_files')][Len(bank_files'[Len(bank_files')])]

IsLineStep == tpc = "pass1" /\ bank_files' # bank_files

\* C6: (witness) a finished run of two banks, a branch expanded in each
C6_Witness ==
    /\ tpc = "done"
    /\ Len(out_files) = 2
    /\ \A b \in 1..2 : LabelDefs(out_files[b]) # {}

\* C6: in a translate_banks run the skip labels _brl_k defined in all the
\* text of all the banks are pairwise distinct, and there are as many as the
\* counter counts; the counter grows by exactly one for an expanded branch
\* and keeps its value at every other line and between banks.
C6_SkipLabelsDistinct ==
    /\ [](LET e == Emitted
              defs == LabelDefs(e)
          IN  /\ \A i, j \in defs : i # j => e[i] # e[j]
              /\ Cardinality(defs) = global_skip_counter)
    /\ [][global_skip_counter' =
            IF IsLineStep /\ IsBranchLine(ReadLine)
            THEN global_skip_counter + 1 ELSE global_skip_counter]_vars

\* C8: (the claim) after Pass 1 every instruction whose absolute or
\* absolute-indexed operand is a hardware register address has become a JSR
\* to a wrapper configured for that address.
C8_NoRawAccess ==
    bank_files # <<>> =>
        \A i \in DOMAIN out_lines :
            HwOperand(asm_lines[i]) # None =>
                /\ FirstWord(out_lines[i]) = <<"JSR">>
                /\ SecondWord(out_lines[i]) \in {<<w>> : w \in WrappersOf(HwOperand(asm_lines[i]))}

\* C9: (the claim) at the end of a run the preamble has been inserted
\* exactly once.
C9_ExactlyOnce == tpc = "done" => Cardinality(Preambles(Join(out_files))) = 1

\* C9: (witness) a finished run of two banks: one holds a reset label and
\* lines around it, the other lines but no reset label
C9_Witness ==
    /\ tpc = "done"
    /\ Len(bank_files) = 2
    /\ \E b \in 1..2 :
        /\ Len(bank_files[b]) >= 2
        /\ IsResetLabel(bank_files[b][1])
        /\ Preambles(out_files[b]) # {}
        /\ bank_files[3 - b] # <<>>
        /\ Preambles(out_files[3 - b]) = {}

\* C9: the preamble is inserted once directly after every label line that
\* names the reset handler, and nowhere else: the output of such a line is
\* the line, a line break and the preamble; the output of any other line
\* holds no preamble; so a bank output holds as many preambles as its bank
\* holds reset labels, none if it holds none. (Stated of the line last
\* processed and the file last written: every line and file is the last once.)
C9_OncePerResetLabel ==
    /\ out_lines # <<>> =>
        LET i == Len(out_lines) IN
            IF IsResetLabel(asm_lines[i])
            THEN out_lines[i] = normalize_ghidra_line(asm_lines[i]) \o <<"\n">> \o RESET_PREAMBLE_65816
            ELSE Preambles(out_lines[i]) = {}
    /\ out_files # <<>> =>
        LET b == Len(out_files) IN
        Cardinality(Preambles(out_files[b]))
            = Cardinality({i \in DOMAIN bank_files[b] : IsResetLabel(bank_files[b][i])})

\* a line none of the rewrites applies to
IsKept(line) ==
    /\ ~IsBranchLine(line)
    /\ ~IsResetLabel(line)
    /\ normalize_ghidra_line(line) = RStrip(line)
    /\ HwOperand(line) = None

\* C10: (the claim) preprocess_bank emits every line that is not rewritten
\* unchanged, line break included.
C10_LinePreserving ==
    bank_files # <<>> =>
        \A i \in DOMAIN out_lines : IsKept(asm_lines[i]) => out_lines[i] = asm_lines[i]

----------------------------------------------------------------------------
(* Pass 2: what the claims speak of                                        *)

\* the oracle texts a text holds
TextsIn(t) == {t[i] : i \in {i \in DOMAIN t : t[i] \in OracleTexts}}

\* the block of the fixed stub for a function
StubBlock(name) ==
    <<".ifndef", " ", name \o "_65816", "\n",
      name \o "_65816", ":", "\n", "    ", "BRK", "\n", "    ", "RTL",
      "\n", ".endif">>

\* the calls of the batch that have an entry in results
Answered == DOMAIN results \cap DOMAIN replies

\* C4: (witness) a batch has returned and its bank is written; the oracle's
\* text for one function did not assemble and the function has the stub;
\* its text for another assembled and is in the bank output
C4_Witness ==
    /\ tpc = "banks"
    /\ out_files # <<>>
    /\ \E i, j \in Answered :
        /\ replies[i].raised = "no" /\ ~OracleAnswers[replies[i].text].valid
        /\ results[i].translated = StubBlock(results[i].name)
        /\ replies[j].raised = "no" /\ OracleAnswers[replies[j].text].valid
        /\ replies[j].text \in TextsIn(out_files[Len(out_files)])
        /\ replies[j].text \in TextsIn(translation_log[Len(translation_log)].translated)

\* C4: every oracle text in a bank output file or in an entry of the
\* translation log is one that validate_asm_snippet accepted; and a function
\* whose returned text the validation rejected has the fixed stub block
\* (label, BRK, RTL) with confidence 0.0.
C4_OnlyValidatedText ==
    /\ \A b \in DOMAIN out_files : \A t \in TextsIn(out_files[b]) : OracleAnswers[t].valid
    /\ \A e \in DOMAIN translation_log :
        \A t \in TextsIn(translation_log[e].translated) : OracleAnswers[t].valid
    /\ \A i \in Answered :
        (replies[i].raised = "no" /\ ~OracleAnswers[replies[i].text].valid) =>
            /\ results[i].translated = StubBlock(results[i].name)
            /\ results[i].confidence = 0

\* C5: (witness) a batch of two functions has returned: the call for the
\* first timed out, the second was still translated, both are in the log
C5_Witness ==
    /\ tpc = "banks"
    /\ Len(results) = 2 /\ Len(replies) = 2
    /\ replies[1].raised = "timeout"
    /\ replies[2].raised = "no"
    /\ results[2].confidence > 0
    /\ Len(translation_log) >= 2
    /\ SubSeq(translation_log, Len(translation_log) - 1, Len(translation_log)) = results

\* C5: an exception of a backend call (a timeout, or another failure) does
\* not leave call_llm_translate: the function has the stub with confidence
\* 0.0 and review count 0, the loop goes on with the functions that remain,
\* and the batch returns one entry for each function it was given.
C5_FailureAbsorbed ==
    /\ [](tpc # "raised")
    /\ [](\A i \in DOMAIN replies :
            replies[i].raised # "no" =>
                /\ i \in DOMAIN results
                /\ results[i].translated = StubBlock(results[i].name)
                /\ results[i].confidence = 0
                /\ results[i].review_count = 0)
    /\ [](tpc = "oracle" =>
            /\ todo = SubSeq(funcs_to_translate, Len(results) + 1, Len(funcs_to_translate))
            /\ \A i \in DOMAIN results : results[i].name = funcs_to_translate[i].name)
    /\ [][translation_log' # translation_log =>
            /\ Len(results) = Len(funcs_to_translate)
            /\ translation_log' = translation_log \o results]_vars

----------------------------------------------------------------------------
(* An expanded branch: what the claim speaks of                            *)

\* the mnemonic and the target of the branch as the bank file holds it
OrigMnem == br_line[2]

OrigTarget == <<br_line[4], br_line[5]>>

\* C7: (witness) a BVS reached with V set (and C set): the block was run and
\* control left for the target of the branch
C7_Witness ==
    /\ br_pc = "jumped"
    /\ OrigMnem = "BVS"
    /\ br_flags["V"] /\ br_flags["C"]
    /\ br_dest = <<"$", "8005">>
    /\ Len(br_block) = 3

\* C7: for each of the eight conditional branches and every value of the
\* flags C, Z, N, V, the block Pass 1 emits, run from its first line, leaves
\* by a JMP to the branch's own target when the branch's condition holds,
\* and otherwise goes on behind the block, where the instruction that
\* followed the branch stands; and while it runs the block the CPU is at a
\* line it can run: a label, the JMP, a branch whose label the block holds.
C7_BranchRouting ==
    /\ br_pc \in {"jumped", "fell"} =>
        IF Taken(OrigMnem, br_flags)
        THEN br_pc = "jumped" /\ br_dest = OrigTarget
        ELSE br_pc = "fell"
    /\ br_pc = "run" =>
        \/ br_ip = Len(br_block) + 1
        \/ /\ br_ip \in DOMAIN br_block
           /\ Len(CurWords) >= 1
           /\ \/ CurWords[1][Len(CurWords[1])] = ":"
              \/ Len(CurWords) >= 2 /\ CurWords[1] = <<"JMP">>
              \/ /\ Len(CurWords) >= 2
                 /\ CurWords[1] \in {<<m>> : m \in BRANCH_MNEMONICS}
                 /\ LabelLine(CurWords[2]) # {}

----------------------------------------------------------------------------
(* The Function table                                                      *)

\* the vectors that hold the address a
VectorsAt(a) == {k \in VecNames : vectors[k] = a}

\* the target of the JSR decoded at a
JsrTarget(a) == all_instructions[a][2][3]

\* the JSR instructions the run decoded
DecodedJsrs == {a \in DOMAIN all_instructions : all_instructions[a][1] = "JSR"}

\* C11: when the traversal has ended, the Function record of a vector
\* address inside the image carries the label of a vector that holds the
\* address (RESET_HANDLER, NMI_HANDLER, IRQ_HANDLER), also when the address
\* is the target of a JSR.
C11_VectorNamesKept ==
    pc = "done" =>
        \A k \in VecNames :
            InImage(vectors[k]) /\ StrKey(vectors[k]) \in DOMAIN functions =>
                functions[StrKey(vectors[k])].name \in
                    {<<_VEC_LABEL[j], None>> : j \in VectorsAt(vectors[k])}

\* C12: when the traversal has ended, the callers of a function hold the
\* address of every decoded JSR that targets the function.
C12_CallersComplete ==
    pc = "done" =>
        \A a \in DecodedJsrs :
            StrKey(JsrTarget(a)) \in DOMAIN functions =>
                \E i \in DOMAIN functions[StrKey(JsrTarget(a))].callers :
                    functions[StrKey(JsrTarget(a))].callers[i] = StrKey(a)

AtOpcode ==
    IF pc = "inner" /\ ~Skip(addr) /\ addr - base < Len(prg_data)
    THEN prg_data[addr - base + 1] ELSE None

\* the displacement byte of the instruction at addr
Displacement == OperandByte(addr - base, 1, 2)

\* the displacement as a signed 8-bit number
SignExtend(d) == IF d >= 128 THEN d - 256 ELSE d

\* a step that decodes a conditional branch appends the wrapped target
BranchStepWraps ==
    IF AtOpcode \in KnownOpcodes
    THEN OPCODES[AtOpcode][1] \in BRANCHES =>
            queue' = Append(queue, (addr + 2 + SignExtend(Displacement)) % 65536)
    ELSE TRUE

\* C14: the address a conditional branch puts on the work queue is
\* (pc + 2 + sign_extend(d)) mod 2^16.
C14_TargetWraps == [][BranchStepWraps]_vars

----------------------------------------------------------------------------
(* The translation log and the emitted blocks                              *)

\* the entries the log got from the batch that has just returned
LastEntries ==
    SubSeq(translation_log, Len(translation_log) - Len(results) + 1, Len(translation_log))

\* C15: (witness) two batches have returned; the log has an entry for an
\* accepted text, one for a text the validation rejected and one for a call
\* that raised
C15_Witness ==
    /\ tpc = "banks"
    /\ Len(out_files) = 2
    /\ Len(translation_log) >= 3
    /\ translation_log[1].confidence > 0
    /\ Len(replies) = 2
    /\ replies[1].raised = "no" /\ ~OracleAnswers[replies[1].text].valid
    /\ replies[2].raised = "error"
    /\ LastEntries = results

\* C15: every call of the oracle, whether its text was accepted, was
\* rejected by the validation, or the call raised, has exactly one entry in
\* the results of its batch, for the function of the call; and when a batch
\* returns, the log grows by one entry for each function of the batch, in
\* the order of the batch.
C15_OneEntryPerCall ==
    /\ [](Len(results) = Len(replies))
    /\ [](\A i \in DOMAIN replies :
            tpc = "oracle" => results[i].addr = funcs_to_translate[i].addr_str)
    /\ [][translation_log' # translation_log =>
            /\ Len(translation_log') = Len(translation_log) + Len(funcs_to_translate)
            /\ \A i \in DOMAIN funcs_to_translate :
                 translation_log'[Len(translation_log) + i].addr
                     = funcs_to_translate[i].addr_str]_vars

\* C16: over a run the translation log holds at most one entry for a
\* function address, also when the run works through several bank files.
C16_OneEntryPerAddress ==
    \A i, j \in DOMAIN translation_log :
        translation_log[i].addr = translation_log[j].addr => i = j

\* the symbols the oracle stage defines for the functions of functions.json
Symbols65816 == {Name65816(functions_data[i].name) : i \in DOMAIN functions_data}

\* the elements of a sequence
Range(q) == {q[i] : i \in DOMAIN q}

\* the .ifndef that opens the block atom k of the text stands in, or 0
OpenerOf(t, k) ==
    LET o == {i \in 1..(k - 1) :
                 t[i] = ".ifndef" /\ \A m \in (i + 1)..(k - 1) : t[m] # ".endif"}
    IN  IF o = {} THEN 0 ELSE CHOOSE i \in o : \A m \in o : m <= i

\* the .endif that closes the block opened at atom i of the text, or 0
CloserOf(t, i) ==
    LET c == {j \in (i + 1)..Len(t) : t[j] = ".endif"}
    IN  IF c = {} THEN 0 ELSE CHOOSE j \in c : \A m \in c : j <= m

\* the places of the text that define the symbol s outside every guard:
\* the label of a stub
BareDefs(t, s) ==
    {k \in DOMAIN t : t[k] = s /\ k + 1 <= Len(t) /\ t[k + 1] = ":" /\ OpenerOf(t, k) = 0}

\* the guards of the text for the symbol s whose block defines it: by the
\* label of the stub, or by a text of the oracle, which defines the label
\* it was asked to begin with
GuardedDefs(t, s) ==
    {i \in DOMAIN t :
        /\ t[i] = ".ifndef" /\ i + 2 <= Len(t) /\ t[i + 2] = s
        /\ \E k \in (i + 3)..Len(t) :
            /\ OpenerOf(t, k) = i
            /\ t[k] \in OracleTexts \/ (t[k] = s /\ k + 1 <= Len(t) /\ t[k + 1] = ":")}

\* how often the assembler defines the symbol s when it reads the text: at
\* every place outside a guard, and in the first guard for s if the symbol
\* is not defined when the assembler comes to it; the later guards are
\* skipped
TimesDefined(t, s) ==
    Cardinality(BareDefs(t, s))
    + Cardinality({i \in GuardedDefs(t, s) :
                      \A k \in BareDefs(t, s) \cup GuardedDefs(t, s) : i <= k})

\* the block is the guard for the name around a stub or one oracle text
IsGuardedBlock(block, name) ==
    /\ Len(block) >= 7
    /\ SubSeq(block, 1, 4) = <<".ifndef", " ", Name65816(name), "\n">>
    /\ SubSeq(block, Len(block) - 1, Len(block)) = <<"\n", ".endif">>
    /\ LET body == SubSeq(block, 5, Len(block) - 2) IN
        \/ body = Stub(name)
        \/ Len(body) = 1 /\ body[1] \in OracleTexts

\* the bank output written last
LastOut == out_files[Len(out_files)]

\* C17: (witness) the NMI handler was emitted into two bank outputs, as a
\* stub in the first and as an accepted translation in the second
C17_Witness ==
    /\ tpc = "banks"
    /\ Len(out_files) = 2
    /\ Len(translation_log) >= 2
    /\ translation_log[1].name = "NMI_HANDLER"
    /\ translation_log[1].translated = StubBlock("NMI_HANDLER")
    /\ translation_log[Len(translation_log)].name = "NMI_HANDLER"
    /\ translation_log[Len(translation_log)].confidence > 0
    /\ \A b \in DOMAIN out_files : Name65816("NMI_HANDLER") \in Range(out_files[b])

\* C17: every block of the oracle stage, a translation or a stub, in the
\* results, in the log and in the bank output written last, stands in a
\* guard ".ifndef <name>_65816 ... .endif" for its function; no stub label
\* and no oracle text stands outside a block; and the assembler, reading
\* the bank outputs one after the other, defines no function symbol twice.
C17_GuardedBlocks ==
    /\ \A i \in DOMAIN results : IsGuardedBlock(results[i].translated, results[i].name)
    /\ \A i \in DOMAIN translation_log :
        IsGuardedBlock(translation_log[i].translated, translation_log[i].name)
    /\ out_files # <<>> =>
        \A k \in DOMAIN LastOut :
            /\ LastOut[k] = ".ifndef" =>
                /\ CloserOf(LastOut, k) # 0
                /\ \E f \in Range(functions_data) :
                     IsGuardedBlock(SubSeq(LastOut, k, CloserOf(LastOut, k)), f.name)
            /\ (LastOut[k] \in OracleTexts \/ LastOut[k] \in Symbols65816) =>
                OpenerOf(LastOut, k) # 0
    /\ \A sym \in Symbols65816 : TimesDefined(Join(out_files), sym) <= 1

\* the label line of a function stands in the text
HasLabelLine(t, name) ==
    \E k \in DOMAIN t : t[k] = name /\ k + 1 <= Len(t) /\ t[k + 1] = ":"

\* C18: a bank output that holds the oracle's block for a function does not
\* also hold the function in its mechanically rewritten form: the Pass-1
\* lines of the function, which begin with its label line.
C18_NotInBothForms ==
    \A b \in DOMAIN out_files : \A f \in Range(functions_data) :
        Name65816(f.name) \in Range(out_files[b]) => ~HasLabelLine(out_files[b], f.name)

\* the Pass-1 text of the bank written last
Pass1Text == Join(out_lines)

\* what the bank output written last holds behind the Pass-1 text
OracleSection == SubSeq(LastOut, Len(Pass1Text) + 1, Len(LastOut))

\* the places of the guards in a text
GuardsIn(t) == {k \in DOMAIN t : t[k] = ".ifndef"}

\* C19: (witness) a bank of two lines was written with the blocks of two
\* functions behind them
C19_Witness ==
    /\ tpc = "banks"
    /\ out_files # <<>>
    /\ Len(out_lines) = 2
    /\ out_lines[1] # out_lines[2]
    /\ Pass2Runs
    /\ Len(funcs_to_translate) = 2
    /\ Cardinality(GuardsIn(OracleSection)) = 2

\* C19: a bank output begins with the Pass-1 lines of the bank, one for
\* each input line and in the order of the input; behind the last of them
\* stand the oracle's blocks and no instruction or label of the bank: one
\* block for each function translated for the bank, in the order of the
\* batch; a bank without a batch has the Pass-1 lines only.
C19_Pass1ThenBlocks ==
    (tpc = "banks" /\ out_files # <<>>) =>
        /\ Len(out_lines) = Len(asm_lines)
        /\ \A i \in DOMAIN out_lines :
            out_lines[i] = preprocess_line(asm_lines[i], reset_vec, global_skip_counter).out
        /\ Len(LastOut) >= Len(Pass1Text)
        /\ SubSeq(LastOut, 1, Len(Pass1Text)) = Pass1Text
        /\ GuardsIn(Pass1Text) = {}
        /\ IF Pass2Runs
           THEN /\ Cardinality(GuardsIn(OracleSection)) = Len(funcs_to_translate)
                /\ \A k \in GuardsIn(OracleSection) :
                    /\ CloserOf(OracleSection, k) # 0
                    /\ IsGuardedBlock(
                         SubSeq(OracleSection, k, CloserOf(OracleSection, k)),
                         funcs_to_translate[Cardinality({m \in GuardsIn(OracleSection) : m <= k})].name)
                /\ \A k \in DOMAIN OracleSection :
                    OracleSection[k] \notin {"RTS", "JMP", "NMI_HANDLER"}
           ELSE OracleSection = <<>>

----------------------------------------------------------------------------
(* The trigger conditions                                                  *)

\* the line is an indirect jump, carries a self-modifying annotation, or is
\* a JSR annotated as crossing a bank
IsTriggerLine(line) ==
    Pattern_IndirectJump(line) \/ Pattern_SelfModif(line) \/ Pattern_BankJsr(line)

\* preprocess_line reported needs_llm for line i of the bank in work
Flagged(i) == \E k \in DOMAIN llm_lines : llm_lines[k] = i - 1

\* C20: preprocess_line reports needs_llm for a line if and only if the
\* line is an indirect jump, carries a self-modifying annotation, or is a
\* JSR annotated as crossing a bank.
C20_FlaggedIffTrigger ==
    tpc = "pass1" => \A i \in DOMAIN asm_lines : Flagged(i) <=> IsTriggerLine(asm_lines[i])

----------------------------------------------------------------------------
(* Pass 1: the rewritten lines                                             *)

\* the lines of the Pass-1 text of the bank in work
BankOutLines == SplitLines(Join(out_lines))

\* the line of the bank in work that was processed last
LastIn == asm_lines[Len(asm_lines)]

\* how often an atom stands in a text
Occurrences(t, a) == Cardinality({i \in DOMAIN t : t[i] = a})

\* C21: when a conditional-branch line has been processed, the last three
\* lines of the bank's output are the inverse branch to a skip label L, the
\* JMP to the operand of the branch, and "L:"; L stands nowhere else in the
\* output of the run.
C21_ThreeLines ==
    (tpc = "pass1" /\ out_lines # <<>> /\ IsBranchLine(LastIn)) =>
        LET n == Len(BankOutLines)
            L == SkipLabel(global_skip_counter - 1)
        IN  /\ n >= 3
            /\ SubSeq(Words(BankOutLines[n - 2]), 1, 2)
                   = <<<<BRANCH_INVERT[FirstWord(LastIn)[1]]>>, <<L>>>>
            /\ Words(BankOutLines[n - 1]) = <<<<"JMP">>, SecondWord(LastIn)>>
            /\ Words(BankOutLines[n]) = <<<<L, ":">>>>
            /\ Occurrences(Emitted, L) = 2

\* the write wrappers configured for a hardware address
WriteWrappersOf(a) ==
    {HW_WRITE_WRAPPERS[k] : k \in {k \in DOMAIN HW_WRITE_WRAPPERS \cap HexAtoms : HexVal[k] = a}}

\* the line is a store (STA, STX, STY) to a hardware address that has a
\* write wrapper
IsWrappedStore(line) ==
    /\ IsInstruction(line)
    /\ MnemOf(FirstWord(line)) \in {"STA", "STX", "STY"}
    /\ HwOperand(line) # None
    /\ WriteWrappersOf(HwOperand(line)) # {}

\* the output of the line processed last
LastOutLine == out_lines[Len(out_lines)]

\* C22: (witness) the store "sta 0x400a" of a Ghidra listing has been
\* rewritten to the call of the wrapper of $400A
C22_Witness ==
    /\ tpc = "pass1" /\ out_lines # <<>>
    /\ LastIn = <<"    ", "sta", " ", "0x", "400a", "\n">>
    /\ Words(LastOutLine)[2] = <<"APU_TRI_LO">>

\* C22: a store (STA, STX, STY) to a hardware address with a write wrapper
\* becomes one line: the indentation of the store, "JSR", the wrapper
\* configured for the address, and the comment "; was: <mnemonic>
\* <operand>"; the line is not flagged for the oracle.
C22_StoreWrapped ==
    (tpc = "pass1" /\ out_lines # <<>> /\ IsWrappedStore(LastIn)) =>
        /\ "\n" \notin Range(LastOutLine)
        /\ Indent(LastOutLine) = Indent(LastIn)
        /\ \E w \in WriteWrappersOf(HwOperand(LastIn)) :
            Words(LastOutLine) =
                <<<<"JSR">>, <<w>>, <<";">>, <<"was:">>,
                  <<MnemOf(FirstWord(LastIn))>>, SecondWord(normalize_ghidra_line(LastIn))>>
        /\ ~Flagged(Len(asm_lines))

----------------------------------------------------------------------------
(* The confidence score                                                    *)

\* the calls of the batch whose text was accepted
AcceptedCalls ==
    {i \in Answered : replies[i].raised = "no" /\ OracleAnswers[replies[i].text].valid}

\* the review markers of the text of call i
Markers(i) == OracleAnswers[replies[i].text].reviews

\* the entries of the log that hold an accepted text
AcceptedEntries == {e \in DOMAIN translation_log : TextsIn(translation_log[e].translated) # {}}

\* C23: (witness) the log of a run holds an accepted text of twelve review
\* markers and one of three
C23_Witness ==
    /\ tpc = "done"
    /\ \E i, j \in AcceptedEntries :
        /\ translation_log[i].review_count = 12 /\ translation_log[i].confidence = 0
        /\ translation_log[j].review_count = 3 /\ translation_log[j].confidence = 70

\* C23: for an accepted text with n review markers the recorded confidence
\* (in hundredths) is max(0, 100 - 10 n): it lies in 0..100, is 100 for
\* n = 0 and 0 for n >= 10, and of two accepted texts of a run the one with
\* more markers has no higher confidence.
C23_Confidence ==
    /\ \A i \in AcceptedCalls :
        /\ results[i].review_count = Markers(i)
        /\ results[i].confidence =
               (IF 10 * Markers(i) >= 100 THEN 0 ELSE 100 - 10 * Markers(i))
        /\ results[i].confidence \in 0..100
        /\ Markers(i) = 0 => results[i].confidence = 100
        /\ Markers(i) >= 10 => results[i].confidence = 0
    /\ \A i, j \in AcceptedEntries :
        translation_log[i].review_count <= translation_log[j].review_count
            => translation_log[i].confidence >= translation_log[j].confidence

----------------------------------------------------------------------------
(* The direction of a register access site                                 *)

\* C24: a register access site has the direction write exactly when its
\* mnemonic is STA, STX or STY, and the direction read only when its
\* mnemonic is LDA, LDX, LDY or BIT.
C24_DirectionByClass ==
    \A i \in DOMAIN register_accesses :
        LET site == register_accesses[i] IN
            /\ site.access = "write" <=> site.mnemonic \in {"STA", "STX", "STY"}
            /\ site.access = "read" => site.mnemonic \in {"LDA", "LDX", "LDY", "BIT"}

----------------------------------------------------------------------------
(* Successors of an instruction                                            *)

\* the mnemonic, mode and length the opcode table gives for the byte at a
RowAt(a) == OPCODES[prg_data[a - base + 1]]

\* the address a JSR, an absolute JMP or a conditional branch at a leads to
TargetAt(a) ==
    LET lo == OperandByte(a - base, 1, RowAt(a)[3])
        hi == OperandByte(a - base, 2, RowAt(a)[3])
    IN  IF RowAt(a)[1] \in BRANCHES THEN a + 2 + branch_offset(lo)
                                    ELSE abs_addr(RowAt(a)[2], lo, hi)

\* a lies in the image and holds a known opcode
Decodable(a) == InImage(a) /\ prg_data[a - base + 1] \in KnownOpcodes

\* the recorded instructions that are calls or conditional branches
CallsAndBranches ==
    {a \in DOMAIN all_instructions : all_instructions[a][1] \in {"JSR"} \cup BRANCHES}

\* a step that decodes a JSR or a conditional branch enqueues the target and
\* goes on with the next sequential address in the same run
KeepsFallthrough ==
    IF AtOpcode \in KnownOpcodes
    THEN OPCODES[AtOpcode][1] \in {"JSR"} \cup BRANCHES =>
            /\ pc' = "inner"
            /\ addr' = addr + OPCODES[AtOpcode][3]
            /\ queue' = Append(queue, TargetAt(addr))
    ELSE TRUE

\* the same, the target of a JSR $0000 left off the queue
KeepsFallthroughNonZero ==
    IF AtOpcode \in KnownOpcodes
    THEN OPCODES[AtOpcode][1] \in {"JSR"} \cup BRANCHES =>
            /\ pc' = "inner"
            /\ addr' = addr + OPCODES[AtOpcode][3]
            /\ queue' = IF OPCODES[AtOpcode][1] = "JSR" /\ TargetAt(addr) = 0
                        THEN queue ELSE Append(queue, TargetAt(addr))
    ELSE TRUE

\* both successors of every recorded call or branch are recorded, where they
\* can be decoded
SuccessorsRecorded ==
    \A a \in CallsAndBranches :
        /\ Decodable(a + all_instructions[a][3]) =>
                a + all_instructions[a][3] \in DOMAIN all_instructions
        /\ Decodable(TargetAt(a)) => TargetAt(a) \in DOMAIN all_instructions

\* C25 (as stated): a step that decodes a JSR or a conditional branch of
\* length L at a goes on to a + L in the same run and puts the target on
\* the work queue.
C25_TargetAlwaysEnqueued == [][KeepsFallthrough]_vars

\* C25 witness: the traversal has ended; a JSR whose target is another
\* address than its fallthrough has both recorded, and a branch is recorded
C25_Witness ==
    /\ pc = "done"
    /\ \E a \in DOMAIN all_instructions :
        /\ all_instructions[a][1] = "JSR"
        /\ TargetAt(a) # a + 3
        /\ {TargetAt(a), a + 3} \subseteq DOMAIN all_instructions
    /\ \E a \in DOMAIN all_instructions :
        /\ all_instructions[a][1] \in BRANCHES
        /\ a + 2 \in DOMAIN all_instructions

\* C25: a step that decodes a JSR or a conditional branch of length L at a
\* goes on to a + L in the same run and puts the target on the work queue,
\* but for the target of a JSR $0000; the traversal then comes to its end,
\* and at its end both successors of every recorded call and branch are in
\* the Instruction table if they lie in the image and hold a known opcode.
C25_FallthroughKept ==
    /\ [][KeepsFallthroughNonZero]_vars
    /\ (CallsAndBranches # {}) ~> (pc = "done")
    /\ [](pc = "done" => SuccessorsRecorded)

----------------------------------------------------------------------------
(* Instructions that end a linear run                                      *)

\* images of jumps and returns are put together from at most this many pieces
MaxJumpPieces == 3

\* JMP $8003, JMP $0000, JMP ($8003), a JMP whose operand bytes are missing
\* if it ends the image, BRK, RTI, RTS and NOP
JumpPieces ==
    {<<76, 3, 128>>, <<76, 0, 0>>, <<108, 3, 128>>, <<76>>, <<0>>, <<64>>, <<96>>, <<234>>}

JumpImages == {Concat(ps) : ps \in UNION {[1..n -> JumpPieces] : n \in 1..MaxJumpPieces}}

\* the vectors point at the first piece, into it, and below the image
JumpVectorChoices ==
    ("NMI" :> {base}) @@ ("RESET" :> {base, base + 1}) @@ ("IRQ" :> {base - 1, base + 3})

InitJumps ==
    /\ prg_data \in JumpImages
    /\ vectors \in {v \in [VecNames -> UNION {JumpVectorChoices[k] : k \in VecNames}] :
                       \A k \in VecNames : v[k] \in JumpVectorChoices[k]}
    /\ pc = "outer"
    /\ run = 1
    /\ first_run = <<>>
    /\ disasm_files = <<>>
    /\ queue = list_of_set(entry_addrs)
    /\ seen_addrs = {}
    /\ all_instructions = <<>>
    /\ register_accesses = <<>>
    /\ functions = <<>>
    /\ key_order = <<>>
    /\ addr = None
    /\ XlIdle /\ BrIdle /\ RestIdle

\* the fallback disassembler on images of jumps and returns
SpecJumps == InitJumps /\ [][NextCFR]_vars

\* the opcode at addr is a JMP with an absolute operand
AtAbsoluteJmp ==
    AtOpcode \in KnownOpcodes /\ OPCODES[AtOpcode][1] = "JMP" /\ OPCODES[AtOpcode][2] = "abs"

\* the opcode at addr is an RTS, an RTI, a BRK or an indirect JMP
AtReturnOrIndirect ==
    /\ AtOpcode \in KnownOpcodes
    /\ \/ OPCODES[AtOpcode][1] \in {"RTS", "RTI", "BRK"}
       \/ OPCODES[AtOpcode][1] = "JMP" /\ OPCODES[AtOpcode][2] = "ind"

\* the step records the instruction at addr and ends the run there: the
\* next address to decode will come off the work queue
RecordsAndEndsRun ==
    /\ addr \in DOMAIN all_instructions'
    /\ all_instructions'[addr][1] = OPCODES[AtOpcode][1]
    /\ pc' = "outer"
    /\ addr' = addr

\* what a step over an instruction that ends a run does
EndsRunStep ==
    /\ AtAbsoluteJmp => RecordsAndEndsRun /\ queue' = Append(queue, TargetAt(addr))
    /\ AtReturnOrIndirect => RecordsAndEndsRun /\ queue' = queue

\* the same, the target of a JMP $0000 left off the queue
EndsRunStepNonZero ==
    /\ AtAbsoluteJmp =>
          /\ RecordsAndEndsRun
          /\ queue' = IF TargetAt(addr) = 0 THEN queue ELSE Append(queue, TargetAt(addr))
    /\ AtReturnOrIndirect => RecordsAndEndsRun /\ queue' = queue

\* the mnemonics and modes that end a run
EndsRun(row) == row[1] \in {"RTS", "RTI", "BRK"} \/ (row[1] = "JMP" /\ row[2] \in {"abs", "ind"})

\* a run goes on only behind an instruction that does not end it
NoFallthroughStep ==
    pc = "inner" /\ pc' = "inner" => ~EndsRun(OPCODES[AtOpcode])

\* C26 (as stated): an absolute JMP puts its target on the work queue and
\* ends the run; RTS, RTI, BRK and an indirect JMP end the run and leave
\* the queue as it is.
C26_JmpTargetAlwaysEnqueued == [][EndsRunStep]_vars

\* C26 witness: the traversal has ended; an absolute JMP is recorded and its
\* target was decoded; an indirect JMP is recorded, the byte behind it is a
\* known opcode, and that address was never visited
C26_Witness ==
    /\ pc = "done"
    /\ \E a \in DOMAIN all_instructions :
        /\ all_instructions[a] = <<"JMP", fmt_operand("abs", 3, 128, a), 3>>
        /\ base + 3 \in DOMAIN all_instructions
    /\ \E a \in DOMAIN all_instructions :
        /\ all_instructions[a][1] = "JMP" /\ RowAt(a)[2] = "ind"
        /\ Decodable(a + 3)
        /\ a + 3 \notin seen_addrs

\* C26: an absolute JMP puts its target on the work queue, but for the
\* target $0000, and ends the run; RTS, RTI, BRK and an indirect JMP end
\* the run and leave the queue as it is; each of them is recorded, and the
\* run never goes on to the address behind one of them.
C26_RunEnds ==
    /\ [][EndsRunStepNonZero]_vars
    /\ [][NoFallthroughStep]_vars

----------------------------------------------------------------------------
(* An unknown opcode                                                       *)

\* the addresses an image of the model can hold
ImageAddrs == base .. base + 3 * MaxPieces + 2

\* a is in the image and its byte is no opcode of the table
UnknownAt(a) == InImage(a) /\ prg_data[a - base + 1] \notin KnownOpcodes

\* a is on the work queue
Queued(a) == \E i \in DOMAIN queue : queue[i] = a

\* a step at an unknown opcode ends the run and leaves the tables and the
\* work queue as they are
UnknownOpcodeStep ==
    (pc = "inner" /\ ~Skip(addr) /\ UnknownAt(addr)) =>
        /\ pc' = "outer"
        /\ addr' \in seen_addrs'
        /\ UNCHANGED <<all_instructions, register_accesses, functions, queue>>

\* C27 witness: a run has just ended at an unknown opcode, earlier runs have
\* recorded instructions, and an address that can be decoded and was not yet
\* visited waits on the work queue
C27_Witness ==
    /\ pc = "outer"
    /\ addr # None /\ UnknownAt(addr) /\ addr \in seen_addrs
    /\ all_instructions # <<>>
    /\ \E a \in ImageAddrs : Queued(a) /\ Decodable(a) /\ a \notin seen_addrs

\* the work queue loses an address only when the outer loop takes its last
\* one, and an address of the image taken off the queue has been visited or
\* is the one the next run starts at
QueueServed ==
    IF pc = "outer" /\ queue # <<>>
    THEN /\ queue' = SubSeq(queue, 1, Len(queue) - 1)
         /\ InImage(queue[Len(queue)]) =>
               \/ queue[Len(queue)] \in seen_addrs
               \/ pc' = "inner" /\ addr' = queue[Len(queue)]
    ELSE /\ Len(queue') >= Len(queue)
         /\ SubSeq(queue', 1, Len(queue)) = queue

\* a run at an address not yet visited visits it, and records it if it holds
\* a known opcode
RunVisits ==
    (pc = "inner" /\ ~Skip(addr)) =>
        /\ addr \in seen_addrs'
        /\ Decodable(addr) => addr \in DOMAIN all_instructions'

\* C27: a step at an unknown opcode ends the current run and changes neither
\* the tables nor the work queue; no Instruction entry is ever recorded for
\* an address that holds an unknown opcode; the traversal always has a next
\* step until it has ended; and every address on the work queue is
\* processed later: an address leaves the queue only when the outer loop
\* takes it, an address of the image that is taken has been visited or is
\* visited by the run that starts there, and recorded if it holds a known
\* opcode, and the traversal goes on until the queue is empty.
C27_UnknownEndsRunOnly ==
    /\ [][UnknownOpcodeStep]_vars
    /\ [](\A a \in DOMAIN all_instructions : ~UnknownAt(a))
    /\ [](pc # "done" => ENABLED NextCFR)
    /\ [][QueueServed]_vars
    /\ [][RunVisits]_vars
    /\ <>[](pc = "done" /\ queue = <<>> /\ \A a \in seen_addrs : InImage(a))

----------------------------------------------------------------------------
(* Operand bytes behind the end of the image                               *)

\* the byte of the image at address a, zero behind the end of the image
ByteOrZero(a) == IF InImage(a) THEN prg_data[a - base + 1] ELSE 0

\* the recorded instruction at a reaches behind the end of the image
PastEnd(a) == a + all_instructions[a][3] > base + Len(prg_data)

\* C28 witness: the traversal has ended; a three-byte instruction is
\* recorded whose second operand byte alone is missing, and another whose
\* operand bytes are all missing
C28_Witness ==
    /\ pc = "done"
    /\ \E a \in DOMAIN all_instructions :
        /\ all_instructions[a][3] = 3
        /\ a + 2 = base + Len(prg_data)
        /\ prg_data[a - base + 2] # 0
    /\ \E a \in DOMAIN all_instructions : a + 1 = base + Len(prg_data) /\ PastEnd(a)

\* C28: every recorded instruction carries the mnemonic and the full length
\* the opcode table gives for its opcode byte, and the operand text formed
\* from the operand bytes that lie in the image, with zero in the place of
\* each operand byte behind the end of the image.
C28_MissingBytesZero ==
    \A a \in DOMAIN all_instructions :
        /\ InImage(a)
        /\ all_instructions[a] =
             <<RowAt(a)[1],
               fmt_operand(RowAt(a)[2],
                           IF RowAt(a)[3] > 1 THEN ByteOrZero(a + 1) ELSE 0,
                           IF RowAt(a)[3] > 2 THEN ByteOrZero(a + 2) ELSE 0,
                           a),
               RowAt(a)[3]>>

----------------------------------------------------------------------------
(* disassemble.py: the bank files                                          *)

\* sizes of the images: one bank, one bank and a half, two banks
BankImageSizes == {bank_size, bank_size + bank_size \div 2, 2 * bank_size}

\* what the image holds at its first address: JSR $C000, JMP $C000, or NOP,
\* NOP and a byte that is no opcode
BankImageHeads == {<<32, 0, 192>>, <<76, 0, 192>>, <<234, 234, 128>>}

\* an image of the given size: the head and an RTS at its start, NOP, NOP
\* and RTS at the start of its second 16 KB, 128 (no opcode) elsewhere
BankImage(size, head) ==
    [i \in 1..size |->
        CASE i <= 3 -> head[i]
          [] i = 4 -> 96
          [] i \in {bank_size + 1, bank_size + 2} -> 234
          [] i = bank_size + 3 -> 96
          [] OTHER -> 128]

\* the vectors point into the first 16 KB, into the second, and below the
\* image (no two of the addresses share a slot)
BankVectorChoices ==
    ("NMI" :> {base, base + 3}) @@ ("RESET" :> {base, base + bank_size + 1})
        @@ ("IRQ" :> {base - 1, base + bank_size + 2})

InitBanks ==
    /\ vectors \in {v \in [VecNames -> UNION {BankVectorChoices[k] : k \in VecNames}] :
                       \A k \in VecNames : v[k] \in BankVectorChoices[k]}
    /\ \E size \in BankImageSizes, head \in BankImageHeads : prg_data = BankImage(size, head)
    /\ pc = "outer"
    /\ run = 1
    /\ first_run = <<>>
    /\ disasm_files = <<>>
    /\ queue = list_of_set(entry_addrs)
    /\ seen_addrs = {}
    /\ all_instructions = <<>>
    /\ register_accesses = <<>>
    /\ functions = <<>>
    /\ key_order = <<>>
    /\ addr = None
    /\ XlIdle /\ BrIdle /\ RestIdle

\* num_banks = max(1, prg_size // bank_size)
num_banks == IF prg_size \div bank_size >= 1 THEN prg_size \div bank_size ELSE 1

RECURSIVE sorted(_)
\* sorted(S): the addresses of S in rising order
sorted(S) ==
    IF S = {} THEN <<>>
    ELSE LET least == CHOOSE a \in S : \A b \in S : a <= b
         IN  <<least>> \o sorted(S \ {least})

\* the instruction addresses the generator of lines 378-380 selects for a
\* bank: its condition tests addr, the variable of the enclosing function
\* (as the traversal or the loop over an earlier bank left it), not the key k
\* it iterates over
BankAddrs(bank_idx) ==
    {k \in DOMAIN all_instructions :
        base + bank_idx * bank_size <= addr /\ addr < base + (bank_idx + 1) * bank_size}

\* the lines appended for the instruction at a (lines 383-388): its label
\* line if it starts a function, and the instruction line; `at` tells which
\* entry of the table a line was written from
InstructionLines(a) ==
    (IF StrKey(a) \in DOMAIN functions
     THEN <<[at |-> None, text |-> <<"\n", functions[StrKey(a)].name, ":">>]>>
     ELSE <<>>)
    \o <<[at |-> a, text |-> <<"    ", all_instructions[a][1], all_instructions[a][2]>>]>>

RECURSIVE ListingOf(_)
\* the lines of the instructions at the addresses of q, one after the other
ListingOf(q) == IF q = <<>> THEN <<>> ELSE InstructionLines(Head(q)) \o ListingOf(Tail(q))

\* the lines of bank_NN.asm (lines 377-388)
BankListing(bank_idx) ==
    <<[at |-> None, text |-> <<"; NES PRG Bank ", bank_idx>>], [at |-> None, text |-> <<>>]>>
    \o ListingOf(sorted(BankAddrs(bank_idx)))

\* for bank_idx in range(num_banks): one bank file is written; the loop
\* over the selected addresses leaves addr at the last of them
WriteBankAsm ==
    /\ pc = "done"
    /\ Len(disasm_files) < num_banks
    /\ disasm_files' = Append(disasm_files, BankListing(Len(disasm_files)))
    /\ LET q == sorted(BankAddrs(Len(disasm_files)))
       IN  addr' = IF q = <<>> THEN addr ELSE q[Len(q)]
    /\ UNCHANGED <<prg_data, vectors, queue, seen_addrs, all_instructions,
                   register_accesses, functions, pc, key_order, run, first_run>>
    /\ CfrFrame

\* the bank files are written; functions.json, register_accesses.json and
\* call_graph.json are written from the tables (lines 391-393)
WriteJson ==
    /\ pc = "done"
    /\ Len(disasm_files) = num_banks
    /\ pc' = "written"
    /\ UNCHANGED <<prg_data, vectors, queue, seen_addrs, all_instructions,
                   register_accesses, functions, addr, key_order, run, first_run,
                   disasm_files>>
    /\ CfrFrame

NextBanks ==
    Discard \/ Dequeue \/ RunEnd \/ DecodeFail \/ Decode \/ Halt \/ WriteBankAsm \/ WriteJson

\* the fallback disassembler, with the bank files it writes
SpecBanks == InitBanks /\ [][NextBanks]_vars

----------------------------------------------------------------------------
(* Instructions and bank files                                             *)

\* the places <<file, line>> where the instruction at a is written
PlacesOf(a) ==
    {p \in UNION {{<<k, j>> : j \in DOMAIN disasm_files[k]} : k \in DOMAIN disasm_files} :
        disasm_files[p[1]][p[2]].at = a}

\* the bank file whose 16 KB window holds a: bank_NN.asm is the file NN + 1
WindowOf(a) == (a - base) \div bank_size + 1

\* C29: when the outputs are written, every instruction of the Instruction
\* table is written at one place, in the bank file whose 16 KB window
\* holds its address.
C29_OneBankFile ==
    pc = "written" =>
        \A a \in DOMAIN all_instructions :
            \E k \in DOMAIN disasm_files, j \in 1..(2 + 2 * Cardinality(DOMAIN all_instructions)) :
                /\ k = WindowOf(a)
                /\ PlacesOf(a) = {<<k, j>>}

----------------------------------------------------------------------------
(* The printed and the followed target of a branch                         *)

\* a step that decodes a conditional branch records as its operand the
\* address it puts on the work queue, printed as four hexadecimal digits
PrintsEnqueuedTarget ==
    IF AtOpcode \in KnownOpcodes
    THEN OPCODES[AtOpcode][1] \in BRANCHES =>
            all_instructions'[addr][2] = HexText("$", 4, queue'[Len(queue')], "")
    ELSE TRUE

\* C30: for every displacement byte, the target recorded as the operand of
\* a conditional branch, which the bank listing prints, is the address the
\* traversal puts on the work queue for the branch.
C30_PrintedIsEnqueued == [][PrintsEnqueuedTarget]_vars

----------------------------------------------------------------------------
(* The functions sent to the oracle                                        *)

\* lines read in a run over banks that hold the body of a subroutine
MaxSentLines == 3

\* the label line and a line of a subroutine, the label line of the NMI
\* handler, and an indirect jump
SentLines ==
    {<<"sub_8010", ":", "\n">>,
     <<"NMI_HANDLER", ":", "\n">>,
     <<"    ", "RTS", "\n">>,
     <<"    ", "JMP", " ", "(", "$", "FFFC", ")", "\n">>}

\* a backend that fails, or returns a text that assembles
SentOutcomes ==
    {[raised |-> "error", text |-> ""], [raised |-> "no", text |-> "<text: assembles, no REVIEW>"]}

NextSent ==
    \/ StartBank
    \/ ProcessLine(SentLines, MaxSentLines)
    \/ WriteBank
    \/ BeginBatch
    \/ OracleCallFrom(SentOutcomes)
    \/ EndBatch
    \/ Finish

\* translate_banks with the oracle, over banks that hold the body of a
\* subroutine
SpecSent == InitOracle /\ [][NextSent]_vars

\* line i of the bank in work is a label line
IsLabelLine(i) == Len(asm_lines[i]) >= 2 /\ asm_lines[i][2] = ":"

\* the lines of the bank in work that make the body of the function: its
\* label line and the lines behind it, up to the next label line
BodyOf(name) ==
    {i \in DOMAIN asm_lines :
        \E l \in DOMAIN asm_lines :
            /\ l <= i
            /\ asm_lines[l][1] = name /\ IsLabelLine(l)
            /\ \A m \in (l + 1)..i : ~IsLabelLine(m)}

\* the function is the NMI or the IRQ handler
IsInterruptHandler(f) == f.addr \in {vectors["NMI"], vectors["IRQ"]}

\* C31: a function is in the batch sent to the oracle for a bank only if it
\* is the NMI or the IRQ handler, or a line of its own body in the bank was
\* flagged by Pass 1.
C31_SentOnlyIfFlagged ==
    tpc = "oracle" =>
        \A k \in DOMAIN todo :
            \/ IsInterruptHandler(todo[k])
            \/ \E i \in BodyOf(todo[k].name) : Flagged(i)

----------------------------------------------------------------------------
(* The order of the work queue                                             *)

\* as InitCFR, with list(entry_addrs) in any order a set may yield its
\* elements
InitAnyOrder ==
    /\ prg_data \in Images
    /\ vectors \in {v \in [VecNames -> UNION {VectorChoices[k] : k \in VecNames}] :
                       \A k \in VecNames : v[k] \in VectorChoices[k]}
    /\ pc = "outer"
    /\ run = 1
    /\ first_run = <<>>
    /\ disasm_files = <<>>
    /\ queue \in ListsOf(entry_addrs)
    /\ seen_addrs = {}
    /\ all_instructions = <<>>
    /\ register_accesses = <<>>
    /\ functions = <<>>
    /\ key_order = <<>>
    /\ addr = None
    /\ XlIdle /\ BrIdle /\ RestIdle

\* the fallback disassembler, the entry addresses in any order
SpecAnyOrder == InitAnyOrder /\ [][NextCFR]_vars

\* the addresses control can go to from the instruction at a, as the image
\* tells: the next sequential address unless the instruction ends a run, and
\* the target of a call, an absolute jump or a branch (address 0 is never
\* followed)
SuccessorsOf(a) ==
    IF ~Decodable(a) THEN {}
    ELSE LET mnem == RowAt(a)[1]
             next == {a + RowAt(a)[3]}
         IN  CASE mnem = "JSR" -> next \cup ({TargetAt(a)} \ {0})
               [] mnem = "JMP" /\ RowAt(a)[2] = "abs" -> {TargetAt(a)} \ {0}
               [] mnem = "JMP" -> {}
               [] mnem \in BRANCHES -> next \cup {TargetAt(a)}
               [] mnem \in {"RTS", "RTI", "BRK"} -> {}
               [] OTHER -> next

RECURSIVE ReachableFrom(_)
\* the addresses that can be reached from the addresses of S
ReachableFrom(S) ==
    LET T == S \cup UNION {SuccessorsOf(a) : a \in S}
    IN  IF T = S THEN S ELSE ReachableFrom(T)

\* the Instruction table the image and the set of entry addresses give
TableOf(entries) ==
    LET keys == {a \in ReachableFrom(entries) : Decodable(a)}
    IN  [a \in keys |->
            <<RowAt(a)[1],
              fmt_operand(RowAt(a)[2],
                          IF RowAt(a)[3] > 1 THEN ByteOrZero(a + 1) ELSE 0,
                          IF RowAt(a)[3] > 2 THEN ByteOrZero(a + 2) ELSE 0,
                          a),
              RowAt(a)[3]>>]

\* C32 witness: the traversal has ended; the entry addresses were taken in
\* another order than that of their slots, and the table holds an
\* instruction found from each of two entry addresses, one of them through
\* a call
C32_Witness ==
    /\ pc = "done"
    /\ Cardinality(entry_addrs) >= 2
    /\ \E a, b \in entry_addrs : SetSlot(a) < SetSlot(b) /\ a \in seen_addrs /\ b \in seen_addrs
          /\ key_order # <<>> /\ key_order[1] = <<"functions", StrKey(a)>>
    /\ \E a \in DOMAIN all_instructions : all_instructions[a][1] = "JSR"
    /\ Cardinality(DOMAIN all_instructions) >= 3

\* C32: when the traversal has ended, the Instruction table is the one
\* that the image and the set of entry addresses give, in whatever order
\* the entry addresses stood on the work queue.
C32_TableByImageAndEntries ==
    pc = "done" => all_instructions = TableOf(entry_addrs)

----------------------------------------------------------------------------
(* main.py: the pipeline driver                                            *)

\* (a plausible slip: the build stage not marked fatal)
StagesBuildNotFatal ==
    << <<"parse_rom", TRUE>>, <<"disassemble", FALSE>>, <<"translate_cpu", FALSE>>,
       <<"translate_ppu", FALSE>>, <<"translate_mapper", FALSE>>,
       <<"convert_graphics", FALSE>>, <<"convert_audio", FALSE>>,
       <<"build_snes_rom", FALSE>> >>

\* (stage_id, fatal_on_fail) of the stage definitions
STAGES ==
    << <<"parse_rom", TRUE>>, <<"disassemble", FALSE>>, <<"translate_cpu", FALSE>>,
       <<"translate_ppu", FALSE>>, <<"translate_mapper", FALSE>>,
       <<"convert_graphics", FALSE>>, <<"convert_audio", FALSE>>,
       <<"build_snes_rom", TRUE>> >>

StageIds == {STAGES[i][1] : i \in DOMAIN STAGES}

\* dict.get(key, default) of a dict held as a set of pairs
DictGet(d, key, default) ==
    IF \E p \in d : p[1] = key THEN (CHOOSE p \in d : p[1] = key)[2] ELSE default

\* failed = [s["stage"] for s in stage_results if not s["success"]]
RECURSIVE FailedOf(_)
FailedOf(sr) ==
    IF sr = <<>> THEN <<>>
    ELSE (IF sr[1].success THEN <<>> ELSE <<sr[1].stage>>) \o FailedOf(Tail(sr))

\* (a plausible slip: the check of the build stage put behind that of the translation)
estimate_translation_first(sr, m) ==
    LET failed == Range(FailedOf(sr))
    IN  IF ~DictGet(m, "mapper_supported", FALSE) THEN "UNSUPPORTED_MAPPER"
        ELSE IF "translate_cpu" \in failed THEN "TRANSLATION_FAILED"
        ELSE IF "build_snes_rom" \in failed THEN "BUILD_FAILED"
        ELSE IF {"disassemble", "convert_graphics"} \cap failed # {} THEN "DEGRADED"
        ELSE IF failed # {} THEN "PARTIAL"
        ELSE "HIGH"

estimate_fidelity(sr, m) ==
    LET failed == FailedOf(sr)
        critical_failed == {"disassemble", "convert_graphics"} \cap Range(failed)
    IN  IF ~DictGet(m, "mapper_supported", FALSE) THEN "UNSUPPORTED_MAPPER"
        ELSE IF "build_snes_rom" \in Range(failed) THEN "BUILD_FAILED"
        ELSE IF "translate_cpu" \in Range(failed) THEN "TRANSLATION_FAILED"
        ELSE IF critical_failed # {} THEN "DEGRADED"
        ELSE IF failed # <<>> THEN "PARTIAL"
        ELSE "HIGH"

\* (a plausible slip: the warnings left empty)
NoWarnings(sr) == <<>>

\* the "warnings" of the report: one text for every stage that failed (the dash
\* of the text is written as a hyphen here)
RECURSIVE Warnings(_)
Warnings(sr) ==
    IF sr = <<>> THEN <<>>
    ELSE (IF sr[1].success THEN <<>>
          ELSE << <<"Stage '", sr[1].stage, "' failed - degraded output">> >>)
         \o Warnings(Tail(sr))

\* the report write_build_report writes; sfc_path is None or the path
BuildReport(m, sr, sfc_path) ==
    [supported |-> DictGet(m, "mapper_supported", FALSE),
     output_rom |-> sfc_path,
     stages |-> sr,
     warnings |-> Warnings(sr),
     fidelity_estimate |-> estimate_fidelity(sr, m)]

\* the rom_manifest.json parse_rom.py can leave in the workspace: none, or one that
\* says whether the mapper is supported
ManifestFiles == {{}, {<<"mapper_supported", TRUE>>}, {<<"mapper_supported", FALSE>>}}

MainFrame == UNCHANGED <<cfrVars, xlVars, brVars, dashVars, sseVars, strVars, ghVars>>

\* the driver is started with some arguments
InitMain ==
    /\ CfrIdle /\ vectors = <<>> /\ XlIdle /\ BrIdle /\ DashIdle /\ SseIdle /\ StrIdle /\ GhIdle
    /\ skip_audio \in BOOLEAN
    /\ stage_results = <<>> /\ manifest = {} /\ stages_run = <<>> /\ build_reports = <<>>
    /\ exit_status = None /\ fidelity = <<>>
    /\ m_pc = "start"

\* the check that the ROM file exists
CheckRom ==
    /\ m_pc = "start"
    /\ \E rom_exists \in BOOLEAN :
          IF rom_exists
          THEN m_pc' = "loop" /\ UNCHANGED exit_status
          ELSE m_pc' = "exited" /\ exit_status' = 1
    /\ UNCHANGED <<skip_audio, stage_results, manifest, stages_run, build_reports, fidelity>>
    /\ MainFrame

\* the stage the loop is at
StageAt == STAGES[Len(stage_results) + 1]

\* the loop is at convert_audio and --skip-audio is given
SkipAudioStage ==
    /\ m_pc = "loop" /\ Len(stage_results) < Len(STAGES)
    /\ skip_audio /\ StageAt[1] = "convert_audio"
    /\ stage_results' = Append(stage_results, [stage |-> StageAt[1], success |-> TRUE, returncode |-> 0])
    /\ UNCHANGED <<skip_audio, manifest, stages_run, build_reports, exit_status, fidelity, m_pc>>
    /\ MainFrame

\* run_stage starts the script of the stage
StartStage ==
    /\ m_pc = "loop" /\ Len(stage_results) < Len(STAGES)
    /\ ~(skip_audio /\ StageAt[1] = "convert_audio")
    /\ stages_run' = Append(stages_run, StageAt[1])
    /\ m_pc' = "stage"
    /\ UNCHANGED <<skip_audio, stage_results, manifest, build_reports, exit_status, fidelity>>
    /\ MainFrame

\* the script ends with some return code; the rest of the body of the loop
EndStage ==
    /\ m_pc = "stage"
    /\ \E returncode \in {0, 1}, file \in ManifestFiles :
          LET stage_id == StageAt[1]
              fatal == StageAt[2]
              result == [stage |-> stage_id, success |-> returncode = 0, returncode |-> returncode]
              loaded == IF stage_id = "parse_rom" /\ file # {} THEN file ELSE manifest
          IN  \* parse_rom.py writes the manifest before it ends with 0
              /\ (stage_id = "parse_rom" /\ returncode = 0) => file # {}
              /\ stage_id # "parse_rom" => file = {}
              /\ stage_results' = Append(stage_results, result)
              /\ manifest' = loaded
              /\ IF ~result.success /\ fatal
                 THEN /\ build_reports' = Append(build_reports,
                                                 BuildReport(loaded, stage_results', None))
                      /\ exit_status' = 1
                      /\ m_pc' = "exited"
                 ELSE /\ m_pc' = "loop"
                      /\ UNCHANGED <<build_reports, exit_status>>
    /\ UNCHANGED <<skip_audio, stages_run, fidelity>>
    /\ MainFrame

\* behind the loop: the output ROM is looked for, the report written
Locate ==
    /\ m_pc = "loop" /\ Len(stage_results) = Len(STAGES)
    /\ \E sfc_exists \in BOOLEAN :
          LET sfc_path == IF sfc_exists THEN 1 ELSE None
          IN  /\ build_reports' = Append(build_reports,
                                         BuildReport(manifest, stage_results, sfc_path))
              /\ exit_status' = IF Truthy(sfc_path) THEN 0 ELSE 1
    /\ m_pc' = "exited"
    /\ UNCHANGED <<skip_audio, stage_results, manifest, stages_run, fidelity>>
    /\ MainFrame

NextMain == CheckRom \/ SkipAudioStage \/ StartStage \/ EndStage \/ Locate

\* one run of main.py
SpecMain == InitMain /\ [][NextMain]_vars

----------------------------------------------------------------------------
(* The order of the stages and the fatal ones                              *)

\* place of a stage in STAGES
StageIndex(id) == CHOOSE i \in 1..8 : STAGES[i][1] = id

\* the results of the stages that were run, not skipped
IsRunResult(r) == ~(skip_audio /\ r.stage = "convert_audio")

RunResults == SelectSeq(stage_results, IsRunResult)

\* a stage the claim calls fatal has ended without success
FatalFailed ==
    \E i \in DOMAIN stage_results :
        stage_results[i].stage \in {"parse_rom", "build_snes_rom"} /\ ~stage_results[i].success

\* the stages started so far are in the order of STAGES, none twice
StartedInOrder ==
    \A i, j \in DOMAIN stages_run :
        i < j => StageIndex(stages_run[i]) < StageIndex(stages_run[j])

\* a stage is started only when every stage started before it has ended
OneAtATime ==
    /\ Len(stages_run) - Len(RunResults) = (IF m_pc = "stage" THEN 1 ELSE 0)
    /\ \A i \in DOMAIN RunResults : RunResults[i].stage = stages_run[i]

\* behind the failure of a fatal stage: it is the last stage started, one report
\* without output ROM is written, the process has ended with status 1
AbortedAtFatal ==
    FatalFailed =>
        /\ ~stage_results[Len(stage_results)].success
        /\ stages_run[Len(stages_run)] = stage_results[Len(stage_results)].stage
        /\ Len(build_reports) = 1
        /\ build_reports[1].output_rom = None
        /\ build_reports[1].stages = stage_results
        /\ m_pc = "exited" /\ exit_status = 1

\* the build stage has failed behind seven stages that were run
C33_Witness ==
    /\ FatalFailed /\ Len(stages_run) = 8
    /\ stage_results[8].stage = "build_snes_rom"

\* C33: the stages are started in the order of STAGES, one at a time and none
\* twice; once parse_rom or build_snes_rom has failed no later stage is started, the
\* report is written with no output ROM and the process ends with status 1
C33_OrderAndFatalAbort == StartedInOrder /\ OneAtATime /\ AbortedAtFatal

----------------------------------------------------------------------------
(* Stages that fail without ending the run                                 *)

\* the stage of the i-th result is not fatal and has failed
NonFatalFailed(i) ==
    /\ ~stage_results[i].success
    /\ stage_results[i].stage \notin {"parse_rom", "build_snes_rom"}

\* the process has ended behind the check that the ROM exists
EndedPastCheck == m_pc = "exited" /\ stages_run # <<>>

\* no fatal stage has failed
NoFatalFailure ==
    \A i \in DOMAIN stage_results :
        stage_results[i].success \/ stage_results[i].stage \notin {"parse_rom", "build_snes_rom"}

\* every stage behind a failed non-fatal one was run before the process ended
LaterStagesRun ==
    (EndedPastCheck /\ NoFatalFailure) =>
        \A i \in DOMAIN stage_results :
            NonFatalFailed(i) => \A j \in (i + 1)..Len(STAGES) : STAGES[j][1] \in Range(stages_run)

\* the same, but for the audio stage when --skip-audio is given
LaterStagesRunUnlessSkipped ==
    (EndedPastCheck /\ NoFatalFailure) =>
        \A i \in DOMAIN stage_results :
            NonFatalFailed(i) =>
                \A j \in (i + 1)..Len(STAGES) :
                    \/ STAGES[j][1] \in Range(stages_run)
                    \/ skip_audio /\ STAGES[j][1] = "convert_audio"

\* a non-fatal failure does not end the process: it ends at a fatal failure or
\* behind the last stage
EndsOnlyAtFatalOrLast ==
    EndedPastCheck => (~NoFatalFailure \/ Len(stage_results) = Len(STAGES))

\* every stage that failed is named in the warnings of the report
FailedStagesWarned ==
    \A r \in Range(build_reports) :
        \A i \in DOMAIN r.stages :
            ~r.stages[i].success =>
                <<"Stage '", r.stages[i].stage, "' failed - degraded output">> \in Range(r.warnings)

\* one report when the process has ended, none before
OneReport ==
    /\ EndedPastCheck => Len(build_reports) = 1
    /\ m_pc # "exited" => build_reports = <<>>

\* with --skip-audio: the translation failed, the build stage was still run and the
\* run ended well
C34_Witness ==
    /\ EndedPastCheck /\ skip_audio /\ exit_status = 0
    /\ \E i \in DOMAIN stage_results :
          stage_results[i].stage = "translate_cpu" /\ NonFatalFailed(i)
    /\ "build_snes_rom" \in Range(stages_run)

\* C34 as stated: behind the failure of a non-fatal stage every later stage is still
\* run, the failed stage is named in the warnings of the report, and on every path
\* behind the ROM check one report is written before the process ends
C34_EveryLaterStageRun ==
    LaterStagesRun /\ EndsOnlyAtFatalOrLast /\ FailedStagesWarned /\ OneReport

\* C34: behind the failure of a non-fatal stage every later stage is still run,
\* except convert_audio under --skip-audio; the failed stage is named in the warnings
\* of the report, and on every path behind the ROM check one report is written
\* before the process ends
C34_LaterStagesRunUnlessSkipped ==
    LaterStagesRunUnlessSkipped /\ EndsOnlyAtFatalOrLast /\ FailedStagesWarned /\ OneReport

----------------------------------------------------------------------------
(* The two fidelity estimators                                             *)

\* dashboard.py: the copy of the estimator
_estimate_fidelity(sr, m) ==
    LET failed == FailedOf(sr)
    IN  IF ~DictGet(m, "mapper_supported", FALSE) THEN "UNSUPPORTED_MAPPER"
        ELSE IF "build_snes_rom" \in Range(failed) THEN "BUILD_FAILED"
        ELSE IF "translate_cpu" \in Range(failed) THEN "TRANSLATION_FAILED"
        ELSE IF {"disassemble", "convert_graphics"} \cap Range(failed) # {} THEN "DEGRADED"
        ELSE IF failed # <<>> THEN "PARTIAL"
        ELSE "HIGH"

\* the results of the first n stages when the stages of F fail
ResultsOf(F, n) ==
    [i \in 1..n |-> [stage |-> STAGES[i][1], success |-> STAGES[i][1] \notin F,
                     returncode |-> IF STAGES[i][1] \in F THEN 1 ELSE 0]]

\* the estimators are handed some results and some manifest
InitFidelity ==
    /\ CfrIdle /\ vectors = <<>> /\ XlIdle /\ BrIdle /\ DashIdle /\ SseIdle /\ StrIdle /\ GhIdle
    /\ skip_audio = FALSE
    /\ stage_results \in {ResultsOf(F, n) : F \in SUBSET StageIds, n \in 0..Len(STAGES)}
    /\ manifest \in ManifestFiles
    /\ stages_run = <<>> /\ build_reports = <<>> /\ exit_status = None
    /\ fidelity = <<>>
    /\ m_pc = "estimate"

Estimated(by) == \E i \in DOMAIN fidelity : fidelity[i][1] = by

\* main.py estimates
EstimateMain ==
    /\ m_pc = "estimate" /\ ~Estimated("main")
    /\ fidelity' = Append(fidelity, <<"main", estimate_fidelity(stage_results, manifest)>>)
    /\ UNCHANGED <<skip_audio, stage_results, manifest, stages_run, build_reports,
                   exit_status, m_pc>>
    /\ MainFrame

\* dashboard.py estimates
EstimateDashboard ==
    /\ m_pc = "estimate" /\ ~Estimated("dashboard")
    /\ fidelity' = Append(fidelity, <<"dashboard", _estimate_fidelity(stage_results, manifest)>>)
    /\ UNCHANGED <<skip_audio, stage_results, manifest, stages_run, build_reports,
                   exit_status, m_pc>>
    /\ MainFrame

NextFidelity == EstimateMain \/ EstimateDashboard

SpecFidelity == InitFidelity /\ [][NextFidelity]_vars

\* the stages of the results that failed
FailedStages == {stage_results[i].stage : i \in {j \in DOMAIN stage_results : ~stage_results[j].success}}

MapperSupported == <<"mapper_supported", TRUE>> \in manifest

\* the first of the five causes that applies, in the order of the claim
FirstCause ==
    IF ~MapperSupported THEN "UNSUPPORTED_MAPPER"
    ELSE IF "build_snes_rom" \in FailedStages THEN "BUILD_FAILED"
    ELSE IF "translate_cpu" \in FailedStages THEN "TRANSLATION_FAILED"
    ELSE IF "disassemble" \in FailedStages \/ "convert_graphics" \in FailedStages THEN "DEGRADED"
    ELSE "PARTIAL"

\* both estimators have answered for results where the build and the translation
\* failed under a supported mapper
C38_Witness ==
    /\ Len(fidelity) = 2 /\ MapperSupported
    /\ {"build_snes_rom", "translate_cpu"} \subseteq FailedStages

\* C38: either estimator returns HIGH exactly when the mapper is supported and no
\* stage failed, and otherwise the first that applies of UNSUPPORTED_MAPPER,
\* BUILD_FAILED, TRANSLATION_FAILED, DEGRADED, PARTIAL
C38_FirstCauseOrHigh ==
    \A i \in DOMAIN fidelity :
        /\ (fidelity[i][2] = "HIGH") <=> (MapperSupported /\ FailedStages = {})
        /\ fidelity[i][2] # "HIGH" => fidelity[i][2] = FirstCause

----------------------------------------------------------------------------
(* dashboard.py: run_pipeline                                              *)

\* the "warnings" of the dashboard's report
RECURSIVE DashWarnings(_)
DashWarnings(sr) ==
    IF sr = <<>> THEN <<>>
    ELSE (IF sr[1].success THEN <<>> ELSE << <<"Stage '", sr[1].stage, "' failed">> >>)
         \o DashWarnings(Tail(sr))

\* the report _write_report writes
DashReport(m, sr, sfc_path) ==
    [supported |-> DictGet(m, "mapper_supported", FALSE),
     output_rom |-> sfc_path,
     stages |-> sr,
     warnings |-> DashWarnings(sr),
     fidelity_estimate |-> _estimate_fidelity(sr, m)]

DashFrame == UNCHANGED <<cfrVars, xlVars, brVars, exit_status, fidelity, m_pc, sseVars,
                        strVars, ghVars>>

\* the pipeline thread is about to call run_pipeline
InitDash ==
    /\ CfrIdle /\ vectors = <<>> /\ XlIdle /\ BrIdle /\ SseIdle /\ StrIdle /\ GhIdle
    /\ skip_audio \in BOOLEAN
    /\ stage_results = <<>> /\ manifest = {} /\ stages_run = <<>> /\ build_reports = <<>>
    /\ exit_status = None /\ fidelity = <<>> /\ m_pc = "idle"
    /\ pipeline_status = "idle"
    /\ state_stages = [id \in StageIds |-> "absent"]
    /\ broadcasts = <<>>
    /\ archived = 0
    /\ d_pc = "start"

\* state.broadcast(event_type, ...) about a stage (None: about the run)
Broadcast(log, event_type, stage_id) == Append(log, <<event_type, stage_id>>)

\* the head of run_pipeline
BeginPipeline ==
    /\ d_pc = "start"
    /\ pipeline_status' = "running"
    /\ broadcasts' = Broadcast(broadcasts, "pipeline_start", "")
    /\ d_pc' = "loop"
    /\ UNCHANGED <<skip_audio, stage_results, manifest, stages_run, build_reports,
                   state_stages, archived>>
    /\ DashFrame

\* the loop is at convert_audio and --skip-audio is given
DashSkipAudio ==
    /\ d_pc = "loop" /\ Len(stage_results) < Len(STAGES)
    /\ skip_audio /\ StageAt[1] = "convert_audio"
    /\ state_stages' = [state_stages EXCEPT ![StageAt[1]] = "skipped"]
    /\ broadcasts' = Broadcast(broadcasts, "stage_skip", StageAt[1])
    /\ stage_results' = Append(stage_results, [stage |-> StageAt[1], success |-> TRUE, returncode |-> 0])
    /\ UNCHANGED <<skip_audio, manifest, stages_run, build_reports, pipeline_status,
                   archived, d_pc>>
    /\ DashFrame

\* the stage is entered as running and its script started
DashStartStage ==
    /\ d_pc = "loop" /\ Len(stage_results) < Len(STAGES)
    /\ ~(skip_audio /\ StageAt[1] = "convert_audio")
    /\ state_stages' = [state_stages EXCEPT ![StageAt[1]] = "running"]
    /\ broadcasts' = Broadcast(broadcasts, "stage_start", StageAt[1])
    /\ stages_run' = Append(stages_run, StageAt[1])
    /\ d_pc' = "stage"
    /\ UNCHANGED <<skip_audio, stage_results, manifest, build_reports, pipeline_status,
                   archived>>
    /\ DashFrame

\* the script ends with some return code; the rest of the body of the loop
DashEndStage ==
    /\ d_pc = "stage"
    /\ \E returncode \in {0, 1}, file \in ManifestFiles :
          LET stage_id == StageAt[1]
              fatal == StageAt[2]
              success == returncode = 0
              result == [stage |-> stage_id, success |-> success, returncode |-> returncode]
              load == stage_id = "parse_rom" /\ file # {}
              ended == Broadcast(broadcasts, "stage_end", stage_id)
              informed == IF load THEN Broadcast(ended, "rom_info", "") ELSE ended
          IN  /\ (stage_id = "parse_rom" /\ returncode = 0) => file # {}
              /\ stage_id # "parse_rom" => file = {}
              /\ state_stages' = [state_stages EXCEPT
                                     ![stage_id] = IF success THEN "success" ELSE "failed"]
              /\ stage_results' = Append(stage_results, result)
              /\ manifest' = IF load THEN file ELSE manifest
              /\ IF ~result.success /\ fatal
                 THEN /\ pipeline_status' = "failed"
                      /\ broadcasts' = Broadcast(informed, "pipeline_failed", stage_id)
                      /\ d_pc' = "report"
                 ELSE /\ broadcasts' = informed
                      /\ d_pc' = "loop"
                      /\ UNCHANGED pipeline_status
    /\ UNCHANGED <<skip_audio, stages_run, build_reports, archived>>
    /\ DashFrame

\* (a plausible slip: the run declared complete as soon as the report is written)
WriteReportDeclares ==
    /\ \/ d_pc = "report"
       \/ d_pc = "loop" /\ Len(stage_results) = Len(STAGES)
    /\ build_reports' = Append(build_reports, DashReport(manifest, stage_results, None))
    /\ pipeline_status' = IF pipeline_status = "failed" THEN "failed" ELSE "complete"
    /\ d_pc' = "archive"
    /\ UNCHANGED <<skip_audio, stage_results, manifest, stages_run,
                   state_stages, broadcasts, archived>>
    /\ DashFrame

\* _write_report: without output ROM behind a fatal failure, else with the ROM
\* if the build has left one
DashWriteReport ==
    /\ \/ d_pc = "report"
       \/ d_pc = "loop" /\ Len(stage_results) = Len(STAGES)
    /\ \E sfc_exists \in BOOLEAN :
          LET sfc_path == IF sfc_exists /\ pipeline_status # "failed" THEN 1 ELSE None
          IN  build_reports' = Append(build_reports, DashReport(manifest, stage_results, sfc_path))
    /\ d_pc' = "archive"
    /\ UNCHANGED <<skip_audio, stage_results, manifest, stages_run, pipeline_status,
                   state_stages, broadcasts, archived>>
    /\ DashFrame

\* _archive_run; behind it run_pipeline returns if the run has failed
DashArchive ==
    /\ d_pc = "archive"
    /\ archived' = archived + 1
    /\ broadcasts' = Broadcast(broadcasts, "log_line", "archive")
    /\ d_pc' = IF pipeline_status = "failed" THEN "returned" ELSE "declare"
    /\ UNCHANGED <<skip_audio, stage_results, manifest, stages_run, build_reports,
                   pipeline_status, state_stages>>
    /\ DashFrame

\* the end of run_pipeline
DashComplete ==
    /\ d_pc = "declare"
    /\ pipeline_status' = "complete"
    /\ broadcasts' = Broadcast(broadcasts, "pipeline_complete", "")
    /\ d_pc' = "returned"
    /\ UNCHANGED <<skip_audio, stage_results, manifest, stages_run, build_reports,
                   state_stages, archived>>
    /\ DashFrame

\* an exception leaves run_pipeline and ends the thread: broadcast can raise at
\* its remove, _read_streaming at its index, the copies of _archive_run can fail
ThreadDies ==
    /\ d_pc \in {"loop", "stage", "report", "archive", "declare"}
    /\ d_pc' = "raised"
    /\ UNCHANGED <<skip_audio, stage_results, manifest, stages_run, build_reports,
                   pipeline_status, state_stages, broadcasts, archived>>
    /\ DashFrame

NextDash ==
    \/ BeginPipeline \/ DashSkipAudio \/ DashStartStage \/ DashEndStage
    \/ DashWriteReport \/ DashArchive \/ DashComplete \/ ThreadDies

\* one run of the dashboard's pipeline thread
SpecDash == InitDash /\ [][NextDash]_vars

----------------------------------------------------------------------------
(* The status of the dashboard's pipeline                                  *)

\* the moves of pipeline_status the claim allows
StatusMoves ==
    pipeline_status' # pipeline_status =>
        <<pipeline_status, pipeline_status'>> \in
            {<<"idle", "running">>, <<"running", "complete">>, <<"running", "failed">>}

\* the event was broadcast
Announced(event_type) == \E i \in DOMAIN broadcasts : broadcasts[i][1] = event_type

\* every stage has ended or was skipped, one report is written, the run is archived
RunWrappedUp ==
    /\ \A id \in StageIds : state_stages[id] \in {"success", "failed", "skipped"}
    /\ Len(stage_results) = Len(STAGES)
    /\ Len(build_reports) = 1
    /\ archived = 1

CompleteOnlyWrappedUp ==
    (pipeline_status = "complete" \/ Announced("pipeline_complete")) => RunWrappedUp

FailedOnlyAfterFatal ==
    (pipeline_status = "failed" \/ Announced("pipeline_failed")) =>
        /\ FatalFailed
        /\ state_stages[stage_results[Len(stage_results)].stage] = "failed"

\* the run was declared complete with the audio stage skipped and a stage failed
C35_Witness ==
    /\ pipeline_status = "complete" /\ Announced("pipeline_complete")
    /\ state_stages["convert_audio"] = "skipped"
    /\ state_stages["disassemble"] = "failed"

\* C35: pipeline_status only moves idle -> running -> complete or idle -> running ->
\* failed; complete and the pipeline_complete event come only when every stage has
\* ended or was skipped, the report is written and the run archived; failed comes
\* only when a fatal stage has ended without success
C35_StatusMoves ==
    /\ [][StatusMoves]_vars
    /\ [](CompleteOnlyWrappedUp /\ FailedOnlyAfterFatal)

----------------------------------------------------------------------------
(* dashboard.py: broadcast and the event streams                           *)

\* most clients that connect
MaxClients == 2

\* most calls of broadcast
MaxBroadcasts == 2

\* maxsize of a client's queue (2000 in the code, scaled down)
QueueSize == 1

Clients == 1..MaxClients

\* list.remove(q)
ListRemove(list, q) == SelectSeq(list, LAMBDA x : x # q)

SseFrame == UNCHANGED <<cfrVars, xlVars, brVars, mainVars, dashVars, strVars, ghVars>>

\* the server is up, no client yet
InitSse ==
    /\ CfrIdle /\ vectors = <<>> /\ XlIdle /\ BrIdle /\ MainIdle /\ DashIdle /\ StrIdle
    /\ GhIdle
    /\ sse_queues = <<>>
    /\ q_items = [c \in Clients |-> <<>>]
    /\ q_history = [c \in Clients |-> <<>>]
    /\ q_joined = [c \in Clients |-> <<>>]
    /\ client = [c \in Clients |-> "new"]
    /\ b_sent = 0 /\ b_iter = 0 /\ dead = <<>> /\ b_pc = "idle"

\* sse_stream: a request thread makes a queue and appends it
Connect(c) ==
    /\ client[c] = "new"
    /\ sse_queues' = Append(sse_queues, c)
    /\ q_joined' = [q_joined EXCEPT ![c] = <<b_sent, b_pc \in {"iter", "remove"}>>]
    /\ client' = [client EXCEPT ![c] = "streaming"]
    /\ UNCHANGED <<q_items, q_history, b_sent, b_iter, dead, b_pc>>
    /\ SseFrame

\* generate: q.get hands the next message to the client
Consume(c) ==
    /\ client[c] = "streaming" /\ q_items[c] # <<>>
    /\ q_items' = [q_items EXCEPT ![c] = Tail(@)]
    /\ UNCHANGED <<sse_queues, q_history, q_joined, client, b_sent, b_iter, dead, b_pc>>
    /\ SseFrame

\* generate: the client is gone, GeneratorExit takes the queue off the list
Disconnect(c) ==
    /\ client[c] = "streaming"
    /\ sse_queues' = IF c \in Range(sse_queues) THEN ListRemove(sse_queues, c) ELSE sse_queues
    /\ client' = [client EXCEPT ![c] = "closed"]
    /\ UNCHANGED <<q_items, q_history, q_joined, b_sent, b_iter, dead, b_pc>>
    /\ SseFrame

\* broadcast is called: msg is made, dead is empty, the for loop begins
BeginBroadcast ==
    /\ b_pc = "idle" /\ b_sent < MaxBroadcasts
    /\ b_sent' = b_sent + 1
    /\ b_iter' = 0 /\ dead' = <<>> /\ b_pc' = "iter"
    /\ UNCHANGED <<sse_queues, q_items, q_history, q_joined, client>>
    /\ SseFrame

\* one turn of `for q in self.sse_queues`: the iterator takes the element at its
\* index of the list as it is now
BroadcastPut ==
    /\ b_pc = "iter" /\ b_iter < Len(sse_queues)
    /\ LET q == sse_queues[b_iter + 1]
       IN  IF Len(q_items[q]) < QueueSize
           THEN /\ q_items' = [q_items EXCEPT ![q] = Append(@, b_sent)]
                /\ q_history' = [q_history EXCEPT ![q] = Append(@, b_sent)]
                /\ UNCHANGED dead
           ELSE /\ dead' = Append(dead, q)
                /\ UNCHANGED <<q_items, q_history>>
    /\ b_iter' = b_iter + 1
    /\ UNCHANGED <<sse_queues, q_joined, client, b_sent, b_pc>>
    /\ SseFrame

\* the iterator finds its index at the end of the list
BroadcastIterEnd ==
    /\ b_pc = "iter" /\ b_iter >= Len(sse_queues)
    /\ b_pc' = "remove"
    /\ UNCHANGED <<sse_queues, q_items, q_history, q_joined, client, b_sent, b_iter, dead>>
    /\ SseFrame

\* one turn of `for q in dead`: list.remove raises ValueError when q is not there
BroadcastRemove ==
    /\ b_pc = "remove" /\ dead # <<>>
    /\ IF Head(dead) \in Range(sse_queues)
       THEN /\ sse_queues' = ListRemove(sse_queues, Head(dead))
            /\ dead' = Tail(dead)
            /\ UNCHANGED b_pc
       ELSE /\ b_pc' = "raised"
            /\ UNCHANGED <<sse_queues, dead>>
    /\ UNCHANGED <<q_items, q_history, q_joined, client, b_sent, b_iter>>
    /\ SseFrame

\* broadcast returns
BroadcastReturn ==
    /\ b_pc = "remove" /\ dead = <<>>
    /\ b_pc' = "idle"
    /\ UNCHANGED <<sse_queues, q_items, q_history, q_joined, client, b_sent, b_iter, dead>>
    /\ SseFrame

Connects == \E c \in Clients : Connect(c)

Consumes == \E c \in Clients : Consume(c)

Disconnects == \E c \in Clients : Disconnect(c)

NextSse ==
    \/ Connects \/ Consumes \/ Disconnects
    \/ BeginBroadcast \/ BroadcastPut \/ BroadcastIterEnd \/ BroadcastRemove \/ BroadcastReturn

\* the pipeline thread broadcasts while clients come and go
SpecSse == InitSse /\ [][NextSse]_vars

----------------------------------------------------------------------------
(* What the clients receive                                                *)

\* the messages a to b in their order
FromTo(a, b) == [i \in 1..(b - a + 1) |-> a + i - 1]

\* the queue of c holds, or held, every message broadcast since it was appended; the
\* message under way at that moment may be among them or not
GotEveryMessage(c) ==
    \/ q_history[c] = FromTo(q_joined[c][1] + 1, b_sent)
    \/ q_joined[c][2] /\ q_history[c] = FromTo(q_joined[c][1], b_sent)

\* C36: under every interleaving of broadcast with connects and disconnects,
\* broadcast never raises, and between two broadcasts every queue still on the list
\* has received each message since it was appended once and in order (a queue found
\* full is off the list by then)
C36_BroadcastThreadSafe ==
    /\ b_pc # "raised"
    /\ b_pc = "idle" => \A c \in Range(sse_queues) : GotEveryMessage(c)

----------------------------------------------------------------------------
(* dashboard.py: _read_streaming                                           *)

\* longest stage output, in pieces of OutputPieces
MaxOutputPieces == 4

\* "\033[90m" and "\033[0m", character by character
GreyOn == <<"ESC", "[", "9", "0", "m">>

GreyOff == <<"ESC", "[", "0", "m">>

\* what a stage output of the model is made of: the two sequences, the line break,
\* a blank and a letter
OutputPieces == {GreyOn, GreyOff, <<"\n">>, <<" ">>, <<"t">>}

RECURSIVE Flatten(_)
Flatten(pieces) == IF pieces = <<>> THEN <<>> ELSE Head(pieces) \o Flatten(Tail(pieces))

StageOutputs ==
    {Flatten(ps) : ps \in UNION {[1..n -> OutputPieces] : n \in 0..MaxOutputPieces}}

\* pat is in text at the place i
MatchesAt(text, pat, i) ==
    i + Len(pat) - 1 <= Len(text) /\ SubSeq(text, i, i + Len(pat) - 1) = pat

\* text.index(pat, from), places counted from 1; 0 stands for the ValueError
Index(text, pat, from) ==
    LET found == {i \in from..Len(text) : MatchesAt(text, pat, i)}
    IN  IF found = {} THEN 0 ELSE CHOOSE i \in found : \A j \in found : i <= j

\* pat in text
Contains(text, pat) == Index(text, pat, 1) # 0

\* the loop that takes the grey sequences out of the buffer
RECURSIVE ExtractTokens(_, _)
ExtractTokens(buf, tokens) ==
    IF Contains(buf, GreyOn) /\ Contains(buf, GreyOff)
    THEN LET s == Index(buf, GreyOn, 1)
             e == Index(buf, GreyOff, s)
         IN  IF e = 0
             THEN [buffer |-> buf, tokens |-> tokens, raised |-> TRUE]
             ELSE ExtractTokens(SubSeq(buf, 1, s - 1) \o SubSeq(buf, e + 4, Len(buf)),
                                Append(tokens, SubSeq(buf, s + 5, e - 1)))
    ELSE [buffer |-> buf, tokens |-> tokens, raised |-> FALSE]

\* where the match of ANSI_RE that begins at the head of text ends; 0 if there is none
AnsiEnd(text) ==
    IF Len(text) >= 3 /\ text[1] = "ESC" /\ text[2] = "["
    THEN LET rest == {j \in 3..Len(text) : text[j] \notin {"0", "9", ";"}}
             stop == IF rest = {} THEN 0 ELSE CHOOSE j \in rest : \A k \in rest : j <= k
         IN  IF stop # 0 /\ text[stop] = "m" THEN stop ELSE 0
    ELSE 0

\* ANSI_RE.sub('', text)
RECURSIVE AnsiSub(_)
AnsiSub(text) ==
    IF text = <<>> THEN <<>>
    ELSE IF AnsiEnd(text) # 0 THEN AnsiSub(SubSeq(text, AnsiEnd(text) + 1, Len(text)))
    ELSE <<Head(text)>> \o AnsiSub(Tail(text))

\* the loop that takes the complete lines out of the buffer
RECURSIVE ExtractLines(_, _)
ExtractLines(buf, lines) ==
    IF Contains(buf, <<"\n">>)
    THEN LET n == Index(buf, <<"\n">>, 1)
             clean == Strip(AnsiSub(SubSeq(buf, 1, n - 1)))
         IN  ExtractLines(SubSeq(buf, n + 1, Len(buf)),
                          IF clean # <<>> THEN Append(lines, clean) ELSE lines)
    ELSE [buffer |-> buf, lines |-> lines]

StrFrame == UNCHANGED <<cfrVars, xlVars, brVars, mainVars, dashVars, sseVars, ghVars>>

\* the stage is started and will write some output
InitStreaming ==
    /\ CfrIdle /\ vectors = <<>> /\ XlIdle /\ BrIdle /\ MainIdle /\ DashIdle /\ SseIdle
    /\ GhIdle
    /\ stage_output \in StageOutputs
    /\ pipe = stage_output
    /\ buffer = <<>> /\ llm_tokens = <<>> /\ log_lines = <<>>
    /\ s_pc = "read"

\* os.read hands over some of the output; one turn of the loop
ReadChunk ==
    /\ s_pc = "read" /\ pipe # <<>>
    /\ \E k \in 1..Len(pipe) :
          LET text == SubSeq(pipe, 1, k)
              ex == ExtractTokens(buffer \o text, llm_tokens)
              ln == ExtractLines(ex.buffer, log_lines)
          IN  /\ pipe' = SubSeq(pipe, k + 1, Len(pipe))
              /\ llm_tokens' = ex.tokens
              /\ IF ex.raised
                 THEN /\ buffer' = ex.buffer
                      /\ s_pc' = "raised"
                      /\ UNCHANGED log_lines
                 ELSE /\ buffer' = ln.buffer
                      /\ log_lines' = ln.lines
                      /\ UNCHANGED s_pc
    /\ UNCHANGED stage_output
    /\ StrFrame

\* os.read returns nothing: the stage has closed its output
ReadEnd ==
    /\ s_pc = "read" /\ pipe = <<>>
    /\ s_pc' = "done"
    /\ UNCHANGED <<stage_output, pipe, buffer, llm_tokens, log_lines>>
    /\ StrFrame

NextStreaming == ReadChunk \/ ReadEnd

\* _read_streaming on one stage output, cut into chunks in every way
SpecStreaming == InitStreaming /\ [][NextStreaming]_vars

----------------------------------------------------------------------------
(* The grey tokens of a stage output                                       *)

\* the complete grey tokens of a text, in their order
RECURSIVE GreyTokens(_)
GreyTokens(text) ==
    LET s == Index(text, GreyOn, 1)
        e == IF s = 0 THEN 0 ELSE Index(text, GreyOff, s + 5)
    IN  IF e = 0 THEN <<>>
        ELSE <<SubSeq(text, s + 5, e - 1)>> \o GreyTokens(SubSeq(text, e + 4, Len(text)))

\* the text without its complete grey tokens
RECURSIVE WithoutGreyTokens(_)
WithoutGreyTokens(text) ==
    LET s == Index(text, GreyOn, 1)
        e == IF s = 0 THEN 0 ELSE Index(text, GreyOff, s + 5)
    IN  IF e = 0 THEN text
        ELSE SubSeq(text, 1, s - 1) \o WithoutGreyTokens(SubSeq(text, e + 4, Len(text)))

\* C37: however the output is cut into chunks and wherever the sequences stand in it,
\* _read_streaming does not raise, and when it has returned every complete grey token
\* is in llm_tokens once, in order, and the lines logged are those of the output
\* without the tokens
C37_EveryTokenOnce ==
    /\ s_pc # "raised"
    /\ s_pc = "done" =>
          /\ llm_tokens = GreyTokens(stage_output)
          /\ log_lines = ExtractLines(WithoutGreyTokens(stage_output), <<>>).lines

----------------------------------------------------------------------------
(* disassemble.py: disassemble_with_ghidra                                 *)

\* most banks of a program image
MaxBanks == 3

\* the address a bank is loaded at, as NESAnalyzer.py writes it in its keys
BaseKey(b, n) == IF b = n - 1 THEN "0xC000" ELSE "0x8000"

\* what NESAnalyzer.py finds in a bank: one function at the start of the bank and one
\* register access there; the bank is kept with each entry to tell the results of
\* the banks apart
BankFunctions(b, n) == {<<BaseKey(b, n), [name |-> "FUN", bank |-> b]>>}

BankRegs(b, n) == <<[address |-> BaseKey(b, n), bank |-> b]>>

\* files an earlier run of the disassembler has left in disasm/
EarlierFunctions == {<<"0xC000", [name |-> "FUN", bank |-> None]>>}

EarlierRegs == <<[address |-> "0xC000", bank |-> None]>>

\* dict.update(other)
DictUpdate(d, other) == other \cup {p \in d : \A q \in other : q[1] # p[1]}

GhFrame == UNCHANGED <<cfrVars, xlVars, brVars, mainVars, dashVars, sseVars, strVars>>

\* Ghidra is found, the image has some banks, disasm/ is empty or holds the files of
\* an earlier run
InitGhidra ==
    /\ CfrIdle /\ vectors = <<>> /\ XlIdle /\ BrIdle /\ MainIdle /\ DashIdle /\ SseIdle
    /\ StrIdle
    /\ gh_num_banks \in 1..MaxBanks
    /\ gh_bank_idx = 0
    /\ analysis = <<>>
    /\ \E earlier \in BOOLEAN :
          /\ funcs_file = [exists |-> earlier, data |-> IF earlier THEN EarlierFunctions ELSE {}]
          /\ regs_file = [exists |-> earlier, data |-> IF earlier THEN EarlierRegs ELSE <<>>]
    /\ all_functions = {} /\ all_reg_accesses = <<>>
    /\ gh_pc = "analyse"

\* subprocess.run of analyzeHeadless on one bank: it ends with some return code, and
\* NESAnalyzer.py has written its files or has ended before it came to them
AnalyseBank ==
    /\ gh_pc = "analyse" /\ gh_bank_idx < gh_num_banks
    /\ \E returncode \in {0, 1}, wrote \in BOOLEAN :
          /\ analysis' = Append(analysis, [returncode |-> returncode, wrote |-> wrote])
          /\ IF wrote
             THEN /\ funcs_file' = [exists |-> TRUE, data |-> BankFunctions(gh_bank_idx, gh_num_banks)]
                  /\ regs_file' = [exists |-> TRUE, data |-> BankRegs(gh_bank_idx, gh_num_banks)]
             ELSE UNCHANGED <<funcs_file, regs_file>>
    /\ gh_pc' = "merge"
    /\ UNCHANGED <<gh_num_banks, gh_bank_idx, all_functions, all_reg_accesses>>
    /\ GhFrame

\* the rest of the body of the loop: `continue` behind a failure, else the merge of the
\* two files as they are
MergeBank ==
    /\ gh_pc = "merge"
    /\ IF analysis[Len(analysis)].returncode # 0
       THEN UNCHANGED <<all_functions, all_reg_accesses>>
       ELSE /\ all_functions' = IF funcs_file.exists
                                THEN DictUpdate(all_functions, funcs_file.data)
                                ELSE all_functions
            /\ all_reg_accesses' = IF regs_file.exists
                                   THEN all_reg_accesses \o regs_file.data
                                   ELSE all_reg_accesses
    /\ gh_bank_idx' = gh_bank_idx + 1
    /\ gh_pc' = IF gh_bank_idx + 1 < gh_num_banks THEN "analyse" ELSE "write"
    /\ UNCHANGED <<gh_num_banks, analysis, funcs_file, regs_file>>
    /\ GhFrame

\* behind the loop the merged tables are written over the two files
WriteMerged ==
    /\ gh_pc = "write"
    /\ funcs_file' = [exists |-> TRUE, data |-> all_functions]
    /\ regs_file' = [exists |-> TRUE, data |-> all_reg_accesses]
    /\ gh_pc' = "done"
    /\ UNCHANGED <<gh_num_banks, gh_bank_idx, analysis, all_functions, all_reg_accesses>>
    /\ GhFrame

NextGhidra == AnalyseBank \/ MergeBank \/ WriteMerged

\* one run of disassemble_with_ghidra
SpecGhidra == InitGhidra /\ [][NextGhidra]_vars

----------------------------------------------------------------------------
(* What the merged tables hold                                             *)

\* the banks whose analysis ended well and wrote its files
Contributing == {b \in 0..(Len(analysis) - 1) : analysis[b + 1].returncode = 0 /\ analysis[b + 1].wrote}

RECURSIVE RegsOfBanks(_)
\* the register accesses of the contributing banks from bank b on, bank by bank
RegsOfBanks(b) ==
    IF b >= gh_num_banks THEN <<>>
    ELSE (IF b \in Contributing THEN BankRegs(b, gh_num_banks) ELSE <<>>) \o RegsOfBanks(b + 1)

\* C39: when the Ghidra path has ended, the merged function table holds the functions
\* of every bank whose analysis ended well and wrote its files and nothing else, and
\* the merged register accesses are those of these banks, each once
C39_EachBankOnce ==
    gh_pc = "done" =>
        /\ all_functions = UNION {BankFunctions(b, gh_num_banks) : b \in Contributing}
        /\ all_reg_accesses = RegsOfBanks(0)

====
